---- MODULE Spec2Model ----
(***************************************************************************)
(* Clone Spotter: content-based duplicate detection.                       *)
(*                                                                         *)
(* The model covers the two Go finders of internal/core:                   *)
(*   - DuplicateFinder.SearchDuplicates (duplicates.go), the sequential    *)
(*     recursive scan, and                                                 *)
(*   - ConcurrentDuplicateFinder.SearchDuplicatesConcurrent (the second    *)
(*     half of colors.go, package core), the worker pool scan.             *)
(* A path is a sequence of one-character strings, so that the substring    *)
(* matching of isExcluded is computed rather than assumed.                 *)
(***************************************************************************)
EXTENDS Integers, Sequences, FiniteSets, TLC

\* ------------------------------------------------------------------------
\* Bounds
\* ------------------------------------------------------------------------
\* largest worker count handed to NewConcurrentDuplicateFinder
MaxWorkers == 2
\* capacity of the progress channel supplied by the caller
ProgressCap == 1

Nil == "nil"

\* ------------------------------------------------------------------------
\* The file system under the scanned root
\* ------------------------------------------------------------------------
\* A node is the sequence of entry names below the root; a name is a
\* sequence of characters.  The root is the empty sequence.
DirNodes == { <<>>, << <<"d">> >>, << <<"x">> >> }

FileNodes == { << <<"a">> >>,
               << <<"a", "x">> >>,
               << <<"d">>, <<"c">> >>,
               << <<"x">>, <<"e">> >> }

Nodes == DirNodes \cup FileNodes

RootNode == <<>>

IsDir(n) == n \in DirNodes

\* root directories handed to a scan
RootDirs == { <<"r">>, <<"x">> }

\* excluded fragment lists handed to the constructors
ExcludedLists ==
    { <<>>, << <<"x">> >>, << <<"d">>, <<"x">> >>, << <<>> >>,
      << <<".", "x">> >> }

\* file contents: at most one per file
Contents == 1..Cardinality(FileNodes)

\* character order used by the directory listings (sorted by name)
CharOrder == <<"/", "a", "c", "d", "e", "r", "x">>

CharRank(c) == CHOOSE i \in 1..Len(CharOrder) : CharOrder[i] = c

\* s < t in the lexical order of strings
RECURSIVE StrLess(_, _)
StrLess(s, t) ==
    IF t = <<>> THEN FALSE
    ELSE IF s = <<>> THEN TRUE
    ELSE IF Head(s) = Head(t) THEN StrLess(Tail(s), Tail(t))
    ELSE CharRank(Head(s)) < CharRank(Head(t))

\* filepath.Join(dirPath, name)
Join(dirPath, name) == dirPath \o <<"/">> \o name

\* the path string under which a traversal started at root sees node n
RECURSIVE PathOf(_, _)
PathOf(root, n) ==
    IF n = <<>> THEN root
    ELSE Join(PathOf(root, SubSeq(n, 1, Len(n) - 1)), n[Len(n)])

Children(n) ==
    { m \in Nodes : Len(m) = Len(n) + 1 /\ SubSeq(m, 1, Len(n)) = n }

\* the entries of a directory in the order os.ReadDir and filepath.Walk
\* deliver them: sorted by file name
RECURSIVE SortNodes(_)
SortNodes(S) ==
    IF S = {} THEN <<>>
    ELSE LET m == CHOOSE x \in S :
                    \A y \in S \ {x} : StrLess(x[Len(x)], y[Len(y)])
         IN  <<m>> \o SortNodes(S \ {m})

\* the sorted listing of every node (empty for a file)
ReadDirTable == [n \in Nodes |-> SortNodes(Children(n))]

ReadDir(n) == ReadDirTable[n]

\* n lies under directory d (at any depth)
IsUnder(n, d) == Len(n) > Len(d) /\ SubSeq(n, 1, Len(d)) = d

\* ------------------------------------------------------------------------
\* PathFilter: the regular expression built by the constructors
\* ------------------------------------------------------------------------
\* variant: the fragment is used as a pattern, its dot matches any
\* character
QuoteMeta_raw(dir) == [i \in 1..Len(dir) |-> [lit |-> dir[i] # ".", ch |-> dir[i]]]

\* regexp.QuoteMeta: every character of the fragment matches only itself
QuoteMeta(dir) == [i \in 1..Len(dir) |-> [lit |-> TRUE, ch |-> dir[i]]]

\* core.DefaultExcludedDirs
DefaultExcludedDirs ==
    << <<"n", "o", "d", "e", "_", "m", "o", "d", "u", "l", "e", "s">>,
       <<".", "g", "i", "t">>,
       <<".", "D", "S", "_", "S", "t", "o", "r", "e">>,
       <<"d", "i", "s", "t">>,
       <<"b", "u", "i", "l", "d">> >>

\* strings.Split(s, ","): the fields between the commas, empty ones kept
RECURSIVE Split(_)
Split(s) ==
    IF \A i \in 1..Len(s) : s[i] # "," THEN << s >>
    ELSE LET i == CHOOSE k \in 1..Len(s) :
                     s[k] = "," /\ \A j \in 1..(k - 1) : s[j] # ","
         IN  << SubSeq(s, 1, i - 1) >> \o Split(SubSeq(s, i + 1, Len(s)))

\* variant: the fields are used as typed
TrimSpace_none(s) == s

\* strings.TrimSpace(s): s without its leading and trailing blanks
RECURSIVE TrimSpace(_)
TrimSpace(s) ==
    IF s = <<>> THEN s
    ELSE IF Head(s) = " " THEN TrimSpace(Tail(s))
    ELSE IF s[Len(s)] = " " THEN TrimSpace(SubSeq(s, 1, Len(s) - 1))
    ELSE s

\* runSearch and promptForExcludedDirs: the defaults, and after them the
\* trimmed fields of a flag that is not empty
ParseExcluded(flag) ==
    IF flag = <<>> THEN DefaultExcludedDirs
    ELSE DefaultExcludedDirs
            \o [i \in 1..Len(Split(flag)) |-> TrimSpace(Split(flag)[i])]

\* the nil *regexp.Regexp: a compiled alternation has at least one branch
NilRegex == <<>>

\* the alternation fragment1|fragment2|... built when the list is not empty
CompileExcluded(dirs) ==
    IF Len(dirs) > 0
    THEN [i \in 1..Len(dirs) |-> QuoteMeta(dirs[i])]
    ELSE NilRegex

TokenMatches(tok, c) == IF tok.lit THEN tok.ch = c ELSE TRUE

\* alternative alt matches s at offset i (0-based)
AltMatchesAt(alt, s, i) ==
    /\ i + Len(alt) <= Len(s)
    /\ \A k \in 1..Len(alt) : TokenMatches(alt[k], s[i + k])

\* variant: the pattern must match the whole path (as if anchored ^...$)
MatchString_anchored(re, s) ==
    \E a \in 1..Len(re) : Len(re[a]) = Len(s) /\ AltMatchesAt(re[a], s, 0)

\* regexp.MatchString: unanchored search
MatchString(re, s) ==
    \E a \in 1..Len(re) : \E i \in 0..Len(s) : AltMatchesAt(re[a], s, i)


\* ------------------------------------------------------------------------
\* State
\* ------------------------------------------------------------------------
VARIABLES
    \* the call under analysis and its arguments
    finder,         \* "seq": DuplicateFinder, "conc": ConcurrentDuplicateFinder
    rootDir,        \* rootDir argument of the scan
    excludeDirs,    \* the --exclude flag as typed; empty when the list is
                    \* handed to executeSearch or to a constructor as it is
    excludedDirs,   \* df.excludedDirs
    excludedRegex,  \* df.excludedRegex
    algorithm,      \* df.algorithm, the selector the finder was made with
    workerArg,      \* workerCount argument of NewConcurrentDuplicateFinder
    workerCount,    \* df.workerCount
    progressChan,   \* Nil, or "chan" for a channel supplied by the caller
    \* the file system
    rootKind,       \* what rootDir names: "dir", "file" or "missing"
    content,        \* content of every file
    unreadable,     \* nodes that cannot be opened / listed
    vanished,       \* entries listed by their directory whose Lstat and Open
                    \* fail (gone, or in a directory that cannot be searched)
    corrupt,        \* files whose read fails partway
    slow,           \* files whose read never completes
    \* DedupIndex
    fileHashes,     \* df.fileHashes: digest -> path
    duplicates,     \* df.duplicates: sequence of Duplicate
    mu,             \* df.mu: 0 when free, else the holder
    \* the calling goroutine
    pc,             \* position of the scan call
    ret,            \* [done, err, dups]: what the call returned, if it did
    files,          \* candidate list (collectFiles / processDirectory order)
    seqIdx,         \* sequential scan: number of files already processed
    \* the layer that calls the scan
    cliPc,          \* position of runSearch / executeSearch, "api" without
    scanNo,         \* number of scan calls made on this finder
    groups,         \* executeSearch: duplicateMap
    stats,          \* executeSearch: stats
    \* worker pool of SearchDuplicatesConcurrent
    fileChan, fileChanClosed, sendIdx,
    resultChan, resultChanClosed,
    wg,             \* sync.WaitGroup counter
    wpc, wfile, whash, wseen,
    \* progress channel buffer
    progBuf,
    \* observation of the run
    pulled,         \* path -> number of times taken from the work list
    hashCalls,      \* path -> number of calculateFileHash calls
    observed,       \* path -> number of completed locked sections
    progSent,       \* number of progress units sent
    warnings,       \* number of warnings written to stderr
    errLog          \* the errors calculateFileHash returned, each with the
                    \* file it was called on

config == <<finder, algorithm, rootDir, excludeDirs, excludedDirs, excludedRegex, workerArg,
            workerCount,
            progressChan, rootKind, content, unreadable, vanished, corrupt,
            slow>>
index  == <<fileHashes, duplicates, mu>>
caller == <<pc, ret, files, seqIdx>>
report == <<groups, stats>>
cli    == <<cliPc, scanNo, report>>
chans  == <<fileChan, fileChanClosed, sendIdx, resultChan, resultChanClosed>>
locals == <<wfile, whash, wseen>>
pool   == <<chans, wg, wpc, locals>>
hist   == <<pulled, hashCalls, observed, progSent, warnings, errLog>>

vars == <<config, index, caller, cli, pool, progBuf, hist>>

Workers == 1..workerCount

EmptyMap == [x \in {} |-> x]

\* ------------------------------------------------------------------------
\* Pure helpers of the finders
\* ------------------------------------------------------------------------
\* for every root, the node each path string under it denotes
NodeTable ==
    [r \in RootDirs |->
        [p \in { PathOf(r, n) : n \in Nodes } |->
            CHOOSE n \in Nodes : PathOf(r, n) = p]]

\* the node a path string of this scan denotes
NodeOf(path) == NodeTable[rootDir][path]

\* for every root, the path strings of the files under it
FilePathTable == [r \in RootDirs |-> { PathOf(r, n) : n \in FileNodes }]

FilePaths == FilePathTable[rootDir]

\* the paths a scan of rootDir can hand to processFile: the files under the
\* root, and the root itself when it names a regular file
TrackedPaths == FilePaths \cup {rootDir}

\* info.IsDir() / entry.IsDir() for node n
EntryIsDir(n) == IF n = RootNode THEN rootKind = "dir" ELSE IsDir(n)

\* os.Open(filePath) fails: the file cannot be read, or is gone
OpenFails(n) == n \in unreadable \/ n \in vanished

\* os.ReadDir(dirPath) and readDirNames fail: n is not a directory, cannot
\* be read, or is gone
ReadDirFails(n) == ~EntryIsDir(n) \/ n \in unreadable \/ n \in vanished

\* isExcluded: false without a regex, else an unanchored match
isExcluded(path) ==
    IF excludedRegex = NilRegex THEN FALSE
    ELSE MatchString(excludedRegex, path)

\* the empty string returned with an error
NoHash == <<>>

\* no path: the zero value of a worker's filePath
NoPath == <<>>

\* the HashAlgorithm constants
MD5    == <<"m", "d", "5">>
SHA1   == <<"s", "h", "a", "1">>
SHA256 == <<"s", "h", "a", "2", "5", "6">>
SHA512 == <<"s", "h", "a", "5", "1", "2">>

\* GetSupportedAlgorithms()
GetSupportedAlgorithms == <<MD5, SHA1, SHA256, SHA512>>

\* IsValidAlgorithm(algorithm): the selector equals a supported one
IsValidAlgorithm(algo) ==
    \E i \in 1..Len(GetSupportedAlgorithms) : algo = GetSupportedAlgorithms[i]

\* variant: a selector that is not known is hashed with SHA-256
getHashAlgorithm_sha(algo) ==
    CASE algo = MD5    -> "md5.New"
      [] algo = SHA1   -> "sha1.New"
      [] algo = SHA512 -> "sha512.New"
      [] OTHER         -> "sha256.New"

\* getHashAlgorithm(): the hasher of the selector; md5 for every selector
\* the switch does not list
getHashAlgorithm(algo) ==
    CASE algo = MD5    -> "md5.New"
      [] algo = SHA1   -> "sha1.New"
      [] algo = SHA256 -> "sha256.New"
      [] algo = SHA512 -> "sha512.New"
      [] OTHER         -> "md5.New"

\* the hex digest of a content under the finder's hasher (injective:
\* collisions are out of scope)
HexDigest(c) == <<getHashAlgorithm(algorithm), c>>

\* io.Copy(hash, file) fails: a read of the open file returns an error
ReadFails(n) == n \in corrupt

\* A message is a sequence of pieces; a piece is a path or a one-element
\* sequence holding literal text.
Literal(text) == << <<text>> >>

\* variant: the error of a failed read does not name the file
PathErrorText_bare(op, path) == Literal(op) \o Literal(": i/o failure")

\* (*os.PathError).Error(): Op + " " + Path + ": " + Err.Error().  os.Open
\* and the reads of an *os.File return a *PathError with the name the file
\* was opened by
PathErrorText(op, path) == Literal(op) \o <<path>> \o Literal(": i/o failure")

\* the text printed for verb number i of a format: operand i, or the
\* notice of fmt for a verb that has no operand
Operand(operands, i, verb) ==
    IF i <= Len(operands) THEN operands[i]
    ELSE Literal("%!" \o verb \o "(MISSING)")

\* fmt.Errorf(text + " %s: %w", operands...).Error()
Errorf(text, operands) ==
    Literal(text) \o Operand(operands, 1, "s")
                  \o Literal(": ") \o Operand(operands, 2, "w")

\* calculateFileHash: the error for a file that cannot be opened or read,
\* else the digest.  The read error of the concurrent finder is formatted
\* with err as its only operand.
calculateFileHash(path) ==
    IF OpenFails(NodeOf(path))
    THEN [err |-> TRUE, hash |-> NoHash,
          msg |-> Errorf("failed to open file",
                         << <<path>>, PathErrorText("open", path) >>)]
    ELSE IF ReadFails(NodeOf(path))
    THEN [err |-> TRUE, hash |-> NoHash,
          msg |-> IF finder = "seq"
                  THEN Errorf("failed to read file",
                              << <<path>>, PathErrorText("read", path) >>)
                  ELSE Errorf("failed to read file",
                              << PathErrorText("read", path) >>)]
    ELSE [err |-> FALSE, hash |-> HexDigest(content[NodeOf(path)]),
          msg |-> <<>>]

\* the error processFile returns is written as a warning
LogError(log, path, h) ==
    IF h.err THEN log \cup {[path |-> path, msg |-> h.msg]} ELSE log

\* the callback of collectFiles applied by filepath.Walk to the subtree of
\* node n: the files appended, in order.  An entry whose Lstat fails and a
\* directory that cannot be listed reach the callback with an error, which
\* it answers with nil: the walk goes on with the next sibling.
RECURSIVE walk(_)
RECURSIVE walkEntries(_)
walkEntries(entries) ==
    IF entries = <<>> THEN <<>>
    ELSE LET e == Head(entries)
             here == IF e \in vanished THEN <<>> ELSE walk(e)
         IN  here \o walkEntries(Tail(entries))

\* variant: the callback does not test the directory the walk starts on
walk_belowroot(n) ==
    IF ~EntryIsDir(n) THEN << PathOf(rootDir, n) >>
    ELSE IF ReadDirFails(n) THEN <<>>
    ELSE IF n # RootNode /\ isExcluded(PathOf(rootDir, n)) THEN <<>>
    ELSE walkEntries(ReadDir(n))

walk(n) ==
    IF ~EntryIsDir(n) THEN << PathOf(rootDir, n) >>
    ELSE IF ReadDirFails(n) THEN <<>>
    ELSE IF isExcluded(PathOf(rootDir, n)) THEN <<>>
    ELSE walkEntries(ReadDir(n))

\* collectFiles(rootDir)
collectFiles == walk(RootNode)

\* processDirectory(dirPath): the files handed to processFile, in order.
\* The directory itself is not tested; its subdirectories are.
RECURSIVE processDirectory(_)
RECURSIVE processEntries(_)
\* variant: the error of a subdirectory ends the loop over the entries
\* instead of being logged
processEntries_stop(entries) ==
    IF entries = <<>> THEN <<>>
    ELSE LET e == Head(entries)
         IN  IF IsDir(e)
             THEN IF isExcluded(PathOf(rootDir, e))
                  THEN processEntries(Tail(entries))
                  ELSE IF ReadDirFails(e) THEN <<>>
                  ELSE processDirectory(e) \o processEntries(Tail(entries))
             ELSE << PathOf(rootDir, e) >> \o processEntries(Tail(entries))

\* the loop of processDirectory over the entries of one directory: a
\* subdirectory that cannot be processed is logged and the loop goes on
processEntries(entries) ==
    IF entries = <<>> THEN <<>>
    ELSE LET e == Head(entries)
             here == IF IsDir(e)
                     THEN IF isExcluded(PathOf(rootDir, e))
                          THEN <<>>
                          ELSE processDirectory(e)
                     ELSE << PathOf(rootDir, e) >>
         IN  here \o processEntries(Tail(entries))

processDirectory(n) ==
    IF ReadDirFails(n) THEN <<>>
    ELSE processEntries(ReadDir(n))

\* originalPath, exists := df.fileHashes[hash]
Lookup(fh, hash) ==
    IF hash \in DOMAIN fh
    THEN [exists |-> TRUE, originalPath |-> fh[hash]]
    ELSE [exists |-> FALSE, originalPath |-> NoPath]

NotSeen == [exists |-> FALSE, originalPath |-> NoPath]

\* df.fileHashes[hash] = filePath  (a Go map assignment)
MapSet(fh, hash, filePath) ==
    [h \in DOMAIN fh \cup {hash} |-> IF h = hash THEN filePath ELSE fh[h]]

\* variant: the map assignment outside the else branch (last writer wins)
ObserveTable_overwrite(fh, seen, hash, filePath) == MapSet(fh, hash, filePath)

\* the else branch of processFile: a digest not seen is recorded
ObserveTable(fh, seen, hash, filePath) ==
    IF seen.exists THEN fh ELSE MapSet(fh, hash, filePath)

\* variant: the two fields of the Duplicate exchanged
ObservePairs_swapped(dups, seen, filePath) ==
    IF seen.exists
    THEN Append(dups, [Original |-> filePath, Duplicate |-> seen.originalPath])
    ELSE dups

\* variant: the append outside the if (a pair for every observed file)
ObservePairs_always(dups, seen, filePath) ==
    Append(dups, [Original |-> seen.originalPath, Duplicate |-> filePath])

\* variant: the pair of a seen digest is appended twice
ObservePairs_twice(dups, seen, filePath) ==
    IF seen.exists
    THEN Append(Append(dups, [Original |-> seen.originalPath,
                              Duplicate |-> filePath]),
                [Original |-> seen.originalPath, Duplicate |-> filePath])
    ELSE dups

\* the then branch of processFile: a digest seen yields a Duplicate
ObservePairs(dups, seen, filePath) ==
    IF seen.exists
    THEN Append(dups, [Original |-> seen.originalPath, Duplicate |-> filePath])
    ELSE dups

Bump(f, x) == [f EXCEPT ![x] = @ + 1]

\* variant: no mutual exclusion (the Lock call left out)
MutexFree_open(m) == TRUE

\* df.mu.Lock() can proceed
MutexFree(m) == m = 0


\* ------------------------------------------------------------------------
\* Initial states: finder constructed, scan not yet started
\* ------------------------------------------------------------------------
\* content maps up to renaming of contents: every content is introduced by
\* the first file (in traversal order) that carries it
AllFiles == SortNodes({ n \in FileNodes : Len(n) = 1 })
            \o SortNodes({ n \in FileNodes : Len(n) = 2 })

Canonical(c) ==
    \A i \in 1..Len(AllFiles) :
        c[AllFiles[i]] <= 1 + Cardinality({ c[AllFiles[j]] : j \in 1..(i - 1) })

NotReturned == [done |-> FALSE, err |-> FALSE, dups |-> <<>>]

\* the content maps of the tree, up to renaming
ContentMaps ==
    { c \in [FileNodes -> Contents] :
        Canonical(c) /\ c[<< <<"x">>, <<"e">> >>] = c[<< <<"a">> >>] }

\* runSearch and interactive mode hand executeSearch the sequential finder
\* and a progress channel; any other call is made on the core API directly
CallerOf(f, ch) == IF f = "seq" /\ ch = "chan" THEN "validate" ELSE "api"

\* the worker count of a finder made with a count that is not positive
DefaultWorkers == 4

\* variant: the count is stored as given
NewWorkerCount_asgiven(arg) == arg

\* NewConcurrentDuplicateFinder: if workerCount <= 0 { workerCount = 4 }
NewWorkerCount(arg) == IF arg <= 0 THEN DefaultWorkers ELSE arg

\* df.workerCount of a finder; the sequential finder has no such field
ConstructedWorkers(f, arg) == IF f = "conc" THEN NewWorkerCount(arg) ELSE 0

\* a file system without files that block their reader
PlainInputs ==
    /\ excludeDirs = <<>>
    /\ corrupt = {}
    /\ slow = {}
    /\ algorithm = MD5

\* the zero value of DuplicateStats
NoStats ==
    [TotalDuplicates |-> 0, UniqueOriginals |-> 0, TotalDuplicateFiles |-> 0,
     DuplicateGroups |-> EmptyMap]

InitRun ==
    /\ excludedRegex = CompileExcluded(excludedDirs)
    /\ scanNo = 1
    /\ groups = EmptyMap
    /\ stats = NoStats
    /\ fileHashes = EmptyMap
    /\ duplicates = <<>>
    /\ mu = 0
    /\ pc = "start"
    /\ ret = NotReturned
    /\ files = <<>>
    /\ seqIdx = 0
    /\ fileChan = <<>>
    /\ fileChanClosed = FALSE
    /\ sendIdx = 0
    /\ resultChan = 0
    /\ resultChanClosed = FALSE
    /\ wg = 0
    /\ wpc = [w \in Workers |-> "idle"]
    /\ wfile = [w \in Workers |-> NoPath]
    /\ whash = [w \in Workers |-> NoHash]
    /\ wseen = [w \in Workers |-> NotSeen]
    /\ progBuf = 0
    /\ pulled = [p \in TrackedPaths |-> 0]
    /\ hashCalls = [p \in TrackedPaths |-> 0]
    /\ observed = [p \in TrackedPaths |-> 0]
    /\ progSent = 0
    /\ warnings = 0
    /\ errLog = {}

\* scans of one tree with at most one unreadable file, both finders and
\* every worker count up to MaxWorkers.  Without a progress channel the
\* worker pool runs on every content map; with one, on the tree whose
\* files are all equal.
Init ==
    /\ finder \in {"seq", "conc"}
    /\ workerArg \in (IF finder = "conc" THEN 1..MaxWorkers ELSE {0})
    /\ workerCount = ConstructedWorkers(finder, workerArg)
    /\ rootDir = <<"r">>
    /\ excludedDirs = << <<"x">> >>
    /\ progressChan \in {Nil, "chan"}
    /\ content \in { c \in [FileNodes -> Contents] :
                        /\ Canonical(c)
                        /\ c[<< <<"x">>, <<"e">> >>] = c[<< <<"a">> >>]
                        /\ (finder = "conc" /\ progressChan = "chan")
                              => \A n \in FileNodes : c[n] = 1 }
    /\ unreadable \in { {} } \cup { {n} : n \in FileNodes }
    /\ rootKind = "dir"
    /\ vanished = {}
    /\ cliPc = CallerOf(finder, progressChan)
    /\ PlainInputs
    /\ InitRun

\* ------------------------------------------------------------------------
\* DuplicateFinder.SearchDuplicates
\* ------------------------------------------------------------------------
\* return nil, err
Failure == [done |-> TRUE, err |-> TRUE, dups |-> <<>>]

\* variant: the map of the previous scan is kept
ResetTable_kept == fileHashes

\* df.fileHashes = make(map[string]string)
ResetTable == EmptyMap

\* os.Stat: a root that does not exist ends the call with an error.  Else
\* the index is reset and the root is listed by processDirectory; a root
\* that os.ReadDir cannot list makes the scan fail
SeqBegin ==
    /\ finder = "seq" /\ pc = "start"
    /\ cliPc \in {"api", "search"}
    /\ IF rootKind = "missing"
       THEN /\ pc' = "failed"
            /\ ret' = Failure
            /\ UNCHANGED <<fileHashes, duplicates, files>>
       ELSE /\ fileHashes' = ResetTable
            /\ duplicates' = <<>>
            /\ IF ReadDirFails(RootNode)
               THEN /\ pc' = "failed"
                    /\ ret' = Failure
                    /\ files' = files
               ELSE /\ pc' = "file"
                    /\ ret' = ret
                    /\ files' = processDirectory(RootNode)
    /\ UNCHANGED <<config, cli, mu, seqIdx, pool, progBuf, hist>>

\* variant: processDirectory returns the error of processFile and the scan
\* fails, instead of logging a warning and going on
SeqProcessFile_abort ==
    /\ finder = "seq" /\ pc = "file"
    /\ seqIdx < Len(files)
    /\ NodeOf(files[seqIdx + 1]) \notin slow
    /\ LET filePath == files[seqIdx + 1]
           h == calculateFileHash(filePath)
       IN  /\ pulled' = Bump(pulled, filePath)
           /\ hashCalls' = Bump(hashCalls, filePath)
           /\ errLog' = LogError(errLog, filePath, h)
           /\ IF h.err
              THEN /\ pc' = "failed"
                   /\ ret' = Failure
                   /\ UNCHANGED <<fileHashes, duplicates, observed, warnings>>
              ELSE /\ MutexFree(mu)
                   /\ LET seen == Lookup(fileHashes, h.hash)
                      IN  /\ fileHashes' = ObserveTable(fileHashes, seen,
                                                        h.hash, filePath)
                          /\ duplicates' = ObservePairs(duplicates, seen,
                                                        filePath)
                   /\ observed' = Bump(observed, filePath)
                   /\ pc' = "progress"
                   /\ UNCHANGED <<ret, warnings>>
    /\ UNCHANGED <<config, cli, mu, files, seqIdx, pool, progBuf, progSent>>

\* variant: a file that fails to hash is passed over with continue, before
\* the progress unit is sent
SeqProcessFile_silent ==
    /\ finder = "seq" /\ pc = "file"
    /\ seqIdx < Len(files)
    /\ NodeOf(files[seqIdx + 1]) \notin slow
    /\ LET filePath == files[seqIdx + 1]
           h == calculateFileHash(filePath)
       IN  /\ pulled' = Bump(pulled, filePath)
           /\ hashCalls' = Bump(hashCalls, filePath)
           /\ errLog' = LogError(errLog, filePath, h)
           /\ IF h.err
              THEN /\ warnings' = warnings + 1
                   /\ seqIdx' = seqIdx + 1
                   /\ pc' = "file"
                   /\ UNCHANGED <<fileHashes, duplicates, observed>>
              ELSE /\ MutexFree(mu)
                   /\ LET seen == Lookup(fileHashes, h.hash)
                      IN  /\ fileHashes' = ObserveTable(fileHashes, seen,
                                                        h.hash, filePath)
                          /\ duplicates' = ObservePairs(duplicates, seen,
                                                        filePath)
                   /\ observed' = Bump(observed, filePath)
                   /\ warnings' = warnings
                   /\ seqIdx' = seqIdx
                   /\ pc' = "progress"
    /\ UNCHANGED <<config, cli, mu, ret, files, pool, progBuf, progSent>>

\* processFile(fullPath) for the next file of the traversal
SeqProcessFile ==
    /\ finder = "seq" /\ pc = "file"
    /\ seqIdx < Len(files)
    /\ NodeOf(files[seqIdx + 1]) \notin slow
    /\ LET filePath == files[seqIdx + 1]
           h == calculateFileHash(filePath)
       IN  /\ pulled' = Bump(pulled, filePath)
           /\ hashCalls' = Bump(hashCalls, filePath)
           /\ errLog' = LogError(errLog, filePath, h)
           /\ IF h.err
              THEN /\ warnings' = warnings + 1
                   /\ UNCHANGED <<fileHashes, duplicates, observed>>
              ELSE /\ MutexFree(mu)
                   /\ LET seen == Lookup(fileHashes, h.hash)
                      IN  /\ fileHashes' = ObserveTable(fileHashes, seen,
                                                        h.hash, filePath)
                          /\ duplicates' = ObservePairs(duplicates, seen,
                                                        filePath)
                   /\ observed' = Bump(observed, filePath)
                   /\ warnings' = warnings
    /\ pc' = "progress"
    /\ UNCHANGED <<config, cli, mu, ret, files, seqIdx, pool, progBuf, progSent>>

\* progressChan <- 1: blocks for ever on a nil channel, and while the
\* buffer is full
SeqProgress ==
    /\ finder = "seq" /\ pc = "progress"
    /\ progressChan # Nil
    /\ progBuf < ProgressCap
    /\ progBuf' = progBuf + 1
    /\ progSent' = progSent + 1
    /\ seqIdx' = seqIdx + 1
    /\ pc' = "file"
    /\ UNCHANGED <<config, cli, index, ret, files, pool,
                   pulled, hashCalls, observed, warnings, errLog>>

\* return df.duplicates, nil
SeqReturn ==
    /\ finder = "seq" /\ pc = "file"
    /\ seqIdx = Len(files)
    /\ pc' = "done"
    /\ ret' = [done |-> TRUE, err |-> FALSE, dups |-> duplicates]
    /\ UNCHANGED <<config, cli, index, files, seqIdx, pool, progBuf, hist>>

\* the caller's goroutine that drains the progress channel
ProgressConsume ==
    /\ progBuf > 0
    /\ progBuf' = progBuf - 1
    /\ UNCHANGED <<config, cli, index, caller, pool, hist>>


\* ------------------------------------------------------------------------
\* ConcurrentDuplicateFinder.SearchDuplicatesConcurrent
\* ------------------------------------------------------------------------
\* os.Stat: a root that does not exist ends the call with an error; else
\* the index is reset, without taking the mutex
ConcBegin ==
    /\ finder = "conc" /\ pc = "start"
    /\ IF rootKind = "missing"
       THEN /\ pc' = "failed"
            /\ ret' = Failure
            /\ UNCHANGED <<fileHashes, duplicates>>
       ELSE /\ fileHashes' = ResetTable
            /\ duplicates' = <<>>
            /\ pc' = "collect"
            /\ ret' = ret
    /\ UNCHANGED <<config, cli, mu, files, seqIdx, pool, progBuf, hist>>

\* files, err := df.collectFiles(rootDir); the callback never returns an
\* error other than SkipDir, so err is nil
ConcCollect ==
    /\ finder = "conc" /\ pc = "collect"
    /\ files' = collectFiles
    /\ pc' = "spawn"
    /\ UNCHANGED <<config, cli, index, ret, seqIdx, pool, progBuf, hist>>

\* both channels are made with capacity len(files); workerCount workers,
\* the sender and the closer are started
ConcSpawn ==
    /\ finder = "conc" /\ pc = "spawn"
    /\ fileChan' = <<>>
    /\ resultChan' = 0
    /\ wg' = workerCount
    /\ wpc' = [w \in Workers |-> "recv"]
    /\ pc' = "drain"
    /\ UNCHANGED <<config, cli, index, ret, files, seqIdx, fileChanClosed, sendIdx,
                   resultChanClosed, locals, progBuf, hist>>

\* variant: the sender's loop stops one file early
SenderDone_early(idx, fs) == idx >= Len(fs) - 1

\* variant: close(fileChan) is left out
SenderDone_noclose(idx, fs) == FALSE

\* the sender's loop over files has ended
SenderDone(idx, fs) == idx = Len(fs)

\* sender goroutine: fileChan <- file (never blocks: capacity len(files))
SenderSend ==
    /\ pc = "drain"
    /\ ~fileChanClosed
    /\ sendIdx < Len(files)
    /\ Len(fileChan) < Len(files)
    /\ fileChan' = Append(fileChan, files[sendIdx + 1])
    /\ sendIdx' = sendIdx + 1
    /\ UNCHANGED <<config, cli, index, caller, fileChanClosed, resultChan,
                   resultChanClosed, wg, wpc, locals, progBuf, hist>>

\* sender goroutine: close(fileChan) after the last file
SenderClose ==
    /\ pc = "drain"
    /\ ~fileChanClosed
    /\ SenderDone(sendIdx, files)
    /\ fileChanClosed' = TRUE
    /\ UNCHANGED <<config, cli, index, caller, fileChan, sendIdx, resultChan,
                   resultChanClosed, wg, wpc, locals, progBuf, hist>>

\* variant: static partitioning, the i-th candidate is received only by
\* worker ((i - 1) mod workerCount) + 1
WorkerRecv_partition(w) ==
    /\ wpc[w] = "recv"
    /\ fileChan # <<>>
    /\ LET i == CHOOSE k \in 1..Len(files) : files[k] = Head(fileChan)
       IN  ((i - 1) % workerCount) + 1 = w
    /\ wfile' = [wfile EXCEPT ![w] = Head(fileChan)]
    /\ fileChan' = Tail(fileChan)
    /\ pulled' = Bump(pulled, Head(fileChan))
    /\ wpc' = [wpc EXCEPT ![w] = "hash"]
    /\ UNCHANGED <<config, cli, index, caller, fileChanClosed, sendIdx,
                   resultChan, resultChanClosed, wg, whash, wseen, progBuf,
                   hashCalls, observed, progSent, warnings, errLog>>

\* worker: for filePath := range fileChan  (one path received; the channel
\* is shared by all workers)
WorkerRecv(w) ==
    /\ wpc[w] = "recv"
    /\ fileChan # <<>>
    /\ wfile' = [wfile EXCEPT ![w] = Head(fileChan)]
    /\ fileChan' = Tail(fileChan)
    /\ pulled' = Bump(pulled, Head(fileChan))
    /\ wpc' = [wpc EXCEPT ![w] = "hash"]
    /\ UNCHANGED <<config, cli, index, caller, fileChanClosed, sendIdx, resultChan,
                   resultChanClosed, wg, whash, wseen, progBuf,
                   hashCalls, observed, progSent, warnings, errLog>>

\* worker: the range loop ends on the closed, empty channel; wg.Done()
WorkerExit(w) ==
    /\ wpc[w] = "recv"
    /\ fileChan = <<>>
    /\ fileChanClosed
    /\ wpc' = [wpc EXCEPT ![w] = "exited"]
    /\ wg' = wg - 1
    /\ UNCHANGED <<config, cli, index, caller, chans, locals, progBuf, hist>>

\* variant: processFile goes on to its locked section with the empty hash
\* of a failed calculateFileHash
WorkerHash_locks(w) ==
    /\ wpc[w] = "hash"
    /\ NodeOf(wfile[w]) \notin slow
    /\ LET h == calculateFileHash(wfile[w])
       IN  /\ whash' = [whash EXCEPT ![w] = h.hash]
           /\ wpc' = [wpc EXCEPT ![w] = "lock"]
           /\ warnings' = IF h.err THEN warnings + 1 ELSE warnings
           /\ errLog' = LogError(errLog, wfile[w], h)
    /\ hashCalls' = Bump(hashCalls, wfile[w])
    /\ UNCHANGED <<config, cli, index, caller, chans, wg, wfile, wseen, progBuf,
                   pulled, observed, progSent>>

\* worker: processFile begins with calculateFileHash, which does not
\* return while the read of the file does not complete; on an error it
\* returns at once and the worker logs a warning
WorkerHash(w) ==
    /\ wpc[w] = "hash"
    /\ NodeOf(wfile[w]) \notin slow
    /\ LET h == calculateFileHash(wfile[w])
       IN  /\ whash' = [whash EXCEPT ![w] = h.hash]
           /\ wpc' = [wpc EXCEPT ![w] = IF h.err THEN "result" ELSE "lock"]
           /\ warnings' = IF h.err THEN warnings + 1 ELSE warnings
           /\ errLog' = LogError(errLog, wfile[w], h)
    /\ hashCalls' = Bump(hashCalls, wfile[w])
    /\ UNCHANGED <<config, cli, index, caller, chans, wg, wfile, wseen, progBuf,
                   pulled, observed, progSent>>

\* worker: df.mu.Lock()
WorkerLock(w) ==
    /\ wpc[w] = "lock"
    /\ MutexFree(mu)
    /\ mu' = w
    /\ wpc' = [wpc EXCEPT ![w] = "lookup"]
    /\ UNCHANGED <<config, cli, fileHashes, duplicates, caller, chans, wg, locals,
                   progBuf, hist>>


\* worker: originalPath, exists := df.fileHashes[hash]
WorkerLookup(w) ==
    /\ wpc[w] = "lookup"
    /\ wseen' = [wseen EXCEPT ![w] = Lookup(fileHashes, whash[w])]
    /\ wpc' = [wpc EXCEPT ![w] = "update"]
    /\ UNCHANGED <<config, cli, index, caller, chans, wg, wfile, whash,
                   progBuf, hist>>

\* worker: the append or the map assignment, then the deferred Unlock
WorkerUpdate(w) ==
    /\ wpc[w] = "update"
    /\ fileHashes' = ObserveTable(fileHashes, wseen[w], whash[w], wfile[w])
    /\ duplicates' = ObservePairs(duplicates, wseen[w], wfile[w])
    /\ mu' = 0
    /\ observed' = Bump(observed, wfile[w])
    /\ wpc' = [wpc EXCEPT ![w] = "result"]
    /\ UNCHANGED <<config, cli, caller, chans, wg, locals, progBuf,
                   pulled, hashCalls, progSent, warnings, errLog>>

\* worker: resultChan <- nil (never blocks: capacity len(files))
WorkerResult(w) ==
    /\ wpc[w] = "result"
    /\ resultChan < Len(files)
    /\ ~resultChanClosed
    /\ resultChan' = resultChan + 1
    /\ wpc' = [wpc EXCEPT ![w] = IF progressChan # Nil THEN "progress"
                                 ELSE "recv"]
    /\ UNCHANGED <<config, cli, index, caller, fileChan, fileChanClosed, sendIdx,
                   resultChanClosed, wg, locals, progBuf, hist>>

\* worker: progressChan <- 1 (blocks while the buffer is full)
WorkerProgress(w) ==
    /\ wpc[w] = "progress"
    /\ progBuf < ProgressCap
    /\ progBuf' = progBuf + 1
    /\ progSent' = progSent + 1
    /\ wpc' = [wpc EXCEPT ![w] = "recv"]
    /\ UNCHANGED <<config, cli, index, caller, chans, wg, locals,
                   pulled, hashCalls, observed, warnings, errLog>>

\* variant: resultChan closed without waiting for the workers
WaitDone_nowait(n) == TRUE

\* wg.Wait() returns
WaitDone(n) == n = 0

\* closer goroutine: wg.Wait(); close(resultChan)
CloserClose ==
    /\ pc = "drain"
    /\ ~resultChanClosed
    /\ WaitDone(wg)
    /\ resultChanClosed' = TRUE
    /\ UNCHANGED <<config, cli, index, caller, fileChan, fileChanClosed, sendIdx,
                   resultChan, wg, wpc, locals, progBuf, hist>>

\* caller: for range resultChan  (one result received)
MainRecv ==
    /\ finder = "conc" /\ pc = "drain"
    /\ resultChan > 0
    /\ resultChan' = resultChan - 1
    /\ UNCHANGED <<config, cli, index, caller, fileChan, fileChanClosed, sendIdx,
                   resultChanClosed, wg, wpc, locals, progBuf, hist>>

\* caller: the range loop ends on the closed, empty channel;
\* return df.duplicates, nil
MainReturn ==
    /\ finder = "conc" /\ pc = "drain"
    /\ resultChan = 0
    /\ resultChanClosed
    /\ pc' = "done"
    /\ ret' = [done |-> TRUE, err |-> FALSE, dups |-> duplicates]
    /\ UNCHANGED <<config, cli, index, files, seqIdx, pool, progBuf, hist>>


\* ------------------------------------------------------------------------
\* The command line layer: runSearch / interactive mode, executeSearch
\* ------------------------------------------------------------------------
\* core.IsValidAlgorithm(algorithm), then
\* core.ValidateDirectory(cleanRootDir): only a supported selector and a
\* directory reach executeSearch
RunValidate ==
    /\ cliPc = "validate"
    /\ cliPc' = IF IsValidAlgorithm(algorithm) /\ rootKind = "dir"
                THEN "search" ELSE "rejected"
    /\ UNCHANGED <<config, scanNo, report, index, caller, pool, progBuf, hist>>

\* executeSearch: SearchDuplicates has returned; close(progressChan)
ExecClose ==
    /\ cliPc = "search"
    /\ ret.done
    /\ cliPc' = "closed"
    /\ UNCHANGED <<config, scanNo, report, index, caller, pool, progBuf, hist>>

\* variant: the duplicates of an original are not appended, the last one
\* replaces the others
GatherStep_overwrite(duplicateMap, dup) ==
    MapSet(duplicateMap, dup.Original, << dup.Duplicate >>)

\* the body of the loop of GatherDuplicates: an original not yet a key gets
\* an empty slice, then the duplicate is appended to the slice of its
\* original
GatherStep(duplicateMap, dup) ==
    LET base == IF dup.Original \in DOMAIN duplicateMap
                THEN duplicateMap
                ELSE MapSet(duplicateMap, dup.Original, <<>>)
    IN  MapSet(base, dup.Original, Append(base[dup.Original], dup.Duplicate))

\* the loop of GatherDuplicates over the pairs, in order
RECURSIVE GatherFrom(_, _)
GatherFrom(dups, duplicateMap) ==
    IF dups = <<>> THEN duplicateMap
    ELSE GatherFrom(Tail(dups), GatherStep(duplicateMap, Head(dups)))

\* GatherDuplicates(duplicates)
GatherDuplicates(dups) == GatherFrom(dups, EmptyMap)

\* variant: every pair is counted as two files
GetDuplicateStats_pairs(dups) ==
    LET duplicateGroups == GatherDuplicates(dups)
    IN  [TotalDuplicates |-> Len(dups),
         UniqueOriginals |-> Cardinality(DOMAIN duplicateGroups),
         TotalDuplicateFiles |-> 2 * Len(dups),
         DuplicateGroups |-> duplicateGroups]

\* GetDuplicateStats(duplicates)
GetDuplicateStats(dups) ==
    LET duplicateGroups == GatherDuplicates(dups)
        uniqueOriginals == Cardinality(DOMAIN duplicateGroups)
        totalDuplicateFiles == Len(dups) + uniqueOriginals
    IN  [TotalDuplicates |-> Len(dups),
         UniqueOriginals |-> uniqueOriginals,
         TotalDuplicateFiles |-> totalDuplicateFiles,
         DuplicateGroups |-> duplicateGroups]

\* variant: the error of the search is not looked at
SearchFailed_ignored(r) == FALSE

\* if err != nil
SearchFailed(r) == r.err

\* executeSearch: return the error of the search, or go on to the results
\* (GatherDuplicates, GetDuplicateStats) and utils.WriteJSONFile
ExecFinish ==
    /\ cliPc = "closed"
    /\ IF SearchFailed(ret)
       THEN /\ cliPc' = "failed"
            /\ UNCHANGED report
       ELSE /\ cliPc' = "written"
            /\ groups' = GatherDuplicates(ret.dups)
            /\ stats' = GetDuplicateStats(ret.dups)
    /\ UNCHANGED <<config, scanNo, index, caller, pool, progBuf, hist>>

\* ------------------------------------------------------------------------
\* Specification
\* ------------------------------------------------------------------------
Next ==
    \/ RunValidate
    \/ ExecClose
    \/ ExecFinish
    \/ SeqBegin
    \/ SeqProcessFile
    \/ SeqProgress
    \/ SeqReturn
    \/ ConcBegin
    \/ ConcCollect
    \/ ConcSpawn
    \/ SenderSend
    \/ SenderClose
    \/ \E w \in Workers : WorkerRecv(w)
    \/ \E w \in Workers : WorkerExit(w)
    \/ \E w \in Workers : WorkerHash(w)
    \/ \E w \in Workers : WorkerLock(w)
    \/ \E w \in Workers : WorkerLookup(w)
    \/ \E w \in Workers : WorkerUpdate(w)
    \/ \E w \in Workers : WorkerResult(w)
    \/ \E w \in Workers : WorkerProgress(w)
    \/ CloserClose
    \/ MainRecv
    \/ MainReturn
    \/ ProgressConsume

Spec == Init /\ [][Next]_vars

\* scans that vary the root directory and the excluded fragments; every
\* file has the same content, so that any file reaching the index shows up
InitFilter ==
    /\ finder \in {"seq", "conc"}
    /\ workerArg = (IF finder = "conc" THEN 1 ELSE 0)
    /\ workerCount = ConstructedWorkers(finder, workerArg)
    /\ rootDir \in RootDirs
    /\ excludedDirs \in ExcludedLists
    /\ progressChan = "chan"
    /\ content = [n \in FileNodes |-> 1]
    /\ unreadable = {}
    /\ rootKind = "dir"
    /\ vanished = {}
    /\ cliPc = CallerOf(finder, progressChan)
    /\ PlainInputs
    /\ InitRun

SpecFilter == InitFilter /\ [][Next]_vars

\* the progress argument of the scans below: a channel for the sequential
\* finder, none or a channel for one worker, none for a larger pool
ProgressChoices(f, w) ==
    IF f = "seq" THEN {"chan"}
    ELSE IF w = 1 THEN {Nil, "chan"}
    ELSE {Nil}

\* scans of a root that may be missing, a regular file or an unreadable
\* directory, and of a tree with at most one failing entry below the root.
\* The sequential finder is called by executeSearch, either after
\* ValidateDirectory or with a root that changed since; the worker pool is
\* called directly.  Nothing is excluded, so that every directory has a
\* sibling that is visited after it.
InitRoot ==
    /\ finder \in {"seq", "conc"}
    /\ workerArg \in (IF finder = "conc" THEN 1..MaxWorkers ELSE {0})
    /\ workerCount = ConstructedWorkers(finder, workerArg)
    /\ rootDir = <<"r">>
    /\ excludedDirs = <<>>
    /\ progressChan \in ProgressChoices(finder, workerCount)
    /\ content = [n \in FileNodes \cup {RootNode} |-> 1]
    /\ rootKind \in {"dir", "file", "missing"}
    /\ \E failing \in { {} } \cup { {n} : n \in Nodes } :
          \/ unreadable = failing /\ vanished = {}
          \/ unreadable = {} /\ vanished = failing \ {RootNode}
    /\ rootKind # "dir" => unreadable \subseteq {RootNode} /\ vanished = {}
    /\ cliPc \in (IF finder = "seq" THEN {"validate", "search"} ELSE {"api"})
    /\ PlainInputs
    /\ InitRun

SpecRoot == InitRoot /\ [][Next]_vars

\* largest number of scan calls made on one finder
MaxScans == 2

\* the caller of the core API starts another scan on the same finder, on
\* the same tree or on one whose files have changed; what the previous call
\* left in the finder is still there
NewScan ==
    /\ cliPc = "api"
    /\ ret.done
    /\ scanNo < MaxScans
    /\ scanNo' = scanNo + 1
    /\ content' \in ContentMaps
    /\ pc' = "start"
    /\ ret' = NotReturned
    /\ files' = <<>>
    /\ seqIdx' = 0
    /\ fileChan' = <<>>
    /\ fileChanClosed' = FALSE
    /\ sendIdx' = 0
    /\ resultChan' = 0
    /\ resultChanClosed' = FALSE
    /\ wg' = 0
    /\ wpc' = [w \in Workers |-> "idle"]
    /\ wfile' = [w \in Workers |-> NoPath]
    /\ whash' = [w \in Workers |-> NoHash]
    /\ wseen' = [w \in Workers |-> NotSeen]
    /\ pulled' = [p \in TrackedPaths |-> 0]
    /\ hashCalls' = [p \in TrackedPaths |-> 0]
    /\ observed' = [p \in TrackedPaths |-> 0]
    /\ progSent' = 0
    /\ warnings' = 0
    /\ errLog' = {}
    /\ UNCHANGED <<finder, algorithm, rootDir, excludeDirs, excludedDirs,
                   excludedRegex, workerArg,
                   workerCount,
                   progressChan, rootKind, unreadable, vanished, corrupt, slow,
                   index,
                   cliPc, report, progBuf>>

NextRescan == Next \/ NewScan

\* finders that are used for more than one scan
InitRescan ==
    /\ finder \in {"seq", "conc"}
    /\ workerArg \in (IF finder = "conc" THEN 1..MaxWorkers ELSE {0})
    /\ workerCount = ConstructedWorkers(finder, workerArg)
    /\ rootDir = <<"r">>
    /\ excludedDirs = << <<"x">> >>
    /\ progressChan \in ProgressChoices(finder, workerCount)
    /\ content \in ContentMaps
    /\ unreadable = {}
    /\ rootKind = "dir"
    /\ vanished = {}
    /\ cliPc \in (IF finder = "seq" THEN {"validate", "api"} ELSE {"api"})
    /\ PlainInputs
    /\ InitRun

SpecRescan == InitRescan /\ [][NextRescan]_vars

\* the steps of worker w
WorkerStep(w) ==
    /\ w \in Workers
    /\ \/ WorkerRecv(w) \/ WorkerExit(w) \/ WorkerHash(w) \/ WorkerLock(w)
       \/ WorkerLookup(w) \/ WorkerUpdate(w) \/ WorkerResult(w)
       \/ WorkerProgress(w)

\* every goroutine that can run is run in the end: the calling goroutine,
\* the sender, the closer, each worker, and the consumer of the progress
\* channel
Fairness ==
    /\ WF_vars(RunValidate \/ ExecClose \/ ExecFinish)
    /\ WF_vars(SeqBegin \/ SeqProcessFile \/ SeqProgress \/ SeqReturn)
    /\ WF_vars(ConcBegin \/ ConcCollect \/ ConcSpawn \/ MainRecv
                 \/ MainReturn)
    /\ WF_vars(SenderSend \/ SenderClose)
    /\ WF_vars(CloserClose)
    /\ WF_vars(ProgressConsume)
    /\ \A w \in 1..MaxWorkers : WF_vars(WorkerStep(w))

\* scans of the tree whose files are all equal, one of which may block its
\* reader for ever
InitFair ==
    /\ finder \in {"seq", "conc"}
    /\ workerArg \in (IF finder = "conc" THEN 1..MaxWorkers ELSE {0})
    /\ workerCount = ConstructedWorkers(finder, workerArg)
    /\ rootDir = <<"r">>
    /\ excludedDirs = << <<"x">> >>
    /\ progressChan \in ProgressChoices(finder, workerCount)
    /\ content = [n \in FileNodes |-> 1]
    /\ unreadable = {}
    /\ rootKind = "dir"
    /\ vanished = {}
    /\ excludeDirs = <<>>
    /\ slow \in { {} } \cup { {n} : n \in FileNodes }
    /\ corrupt = {}
    /\ algorithm = MD5
    /\ cliPc = CallerOf(finder, progressChan)
    /\ InitRun

SpecFair == InitFair /\ [][Next]_vars /\ Fairness

\* scans of the tree of equal files, and of the same tree with the empty
\* fragment excluded (the worker pool then has no candidate); the pool
\* runs with and without a progress channel, whose consumer drains it
InitTerm ==
    /\ finder \in {"seq", "conc"}
    /\ workerArg \in (IF finder = "conc" THEN 1..MaxWorkers ELSE {0})
    /\ workerCount = ConstructedWorkers(finder, workerArg)
    /\ rootDir = <<"r">>
    /\ excludedDirs \in { << <<"x">> >>, << <<>> >> }
    /\ progressChan \in (IF finder = "conc" THEN {Nil, "chan"} ELSE {"chan"})
    /\ content = [n \in FileNodes |-> 1]
    /\ unreadable = {}
    /\ rootKind = "dir"
    /\ vanished = {}
    /\ cliPc = CallerOf(finder, progressChan)
    /\ PlainInputs
    /\ InitRun

SpecTerm == InitTerm /\ [][Next]_vars /\ Fairness

\* values of the --exclude flag: one name, a trailing comma, a double
\* comma, a blank after a comma, a blank only, a blank field at the end
ExcludeInputs ==
    { <<"x">>, <<"x", ",">>, <<"d", ",", ",", "x">>, <<"d", ",", " ", "x">>,
      <<" ">>, <<"d", ",", " ">> }

\* the command line run with an --exclude flag on the tree of equal files;
\* the one-worker pool is made with the same parsed list
InitParse ==
    /\ finder \in {"seq", "conc"}
    /\ workerArg = (IF finder = "conc" THEN 1 ELSE 0)
    /\ workerCount = ConstructedWorkers(finder, workerArg)
    /\ rootDir = <<"r">>
    /\ excludeDirs \in ExcludeInputs
    /\ excludedDirs = ParseExcluded(excludeDirs)
    /\ progressChan = "chan"
    /\ content = [n \in FileNodes |-> 1]
    /\ unreadable = {}
    /\ rootKind = "dir"
    /\ vanished = {}
    /\ corrupt = {}
    /\ slow = {}
    /\ algorithm = MD5
    /\ cliPc = CallerOf(finder, progressChan)
    /\ InitRun

SpecParse == InitParse /\ [][Next]_vars

\* worker counts handed to NewConcurrentDuplicateFinder
WorkerArgs == (0 - 1)..MaxWorkers

\* finders made with any worker count, scanning a tree of equal files
InitWorkers ==
    /\ finder \in {"seq", "conc"}
    /\ workerArg \in (IF finder = "conc" THEN WorkerArgs ELSE {0})
    /\ workerCount = ConstructedWorkers(finder, workerArg)
    /\ rootDir = <<"r">>
    /\ excludedDirs = << <<"d">>, <<"x">> >>
    /\ progressChan \in ProgressChoices(finder, workerCount)
    /\ content = [n \in FileNodes |-> 1]
    /\ unreadable = {}
    /\ rootKind = "dir"
    /\ vanished = {}
    /\ cliPc = CallerOf(finder, progressChan)
    /\ PlainInputs
    /\ InitRun

SpecWorkers == InitWorkers /\ [][Next]_vars

\* selectors handed to the constructors and to the --algorithm flag: the
\* supported ones, two that differ from a supported one in letter case,
\* an unknown one and the empty one
Selectors ==
    { MD5, SHA1, SHA256, SHA512,
      <<"S", "H", "A", "2", "5", "6">>, <<"M", "d", "5">>,
      <<"c", "r", "c">>, <<>> }

\* finders made with any selector, one worker, scanning a tree of equal
\* files; the sequential finder also through the command line
InitAlgo ==
    /\ finder \in {"seq", "conc"}
    /\ algorithm \in Selectors
    /\ workerArg = (IF finder = "conc" THEN 1 ELSE 0)
    /\ workerCount = ConstructedWorkers(finder, workerArg)
    /\ rootDir = <<"r">>
    /\ excludedDirs = << <<"x">> >>
    /\ progressChan = "chan"
    /\ content = [n \in FileNodes |-> 1]
    /\ unreadable = {}
    /\ rootKind = "dir"
    /\ vanished = {}
    /\ excludeDirs = <<>>
    /\ corrupt = {}
    /\ slow = {}
    /\ cliPc \in (IF finder = "seq" THEN {"validate", "api"} ELSE {"api"})
    /\ InitRun

SpecAlgo == InitAlgo /\ [][Next]_vars

\* scans of a tree of equal files of which at most one cannot be opened
\* or fails while it is read
InitErrors ==
    /\ finder \in {"seq", "conc"}
    /\ workerArg \in (IF finder = "conc" THEN 1..MaxWorkers ELSE {0})
    /\ workerCount = ConstructedWorkers(finder, workerArg)
    /\ rootDir = <<"r">>
    /\ excludedDirs = << <<"x">> >>
    /\ progressChan \in ProgressChoices(finder, workerCount)
    /\ content = [n \in FileNodes |-> 1]
    /\ \E bad \in { {} } \cup { {n} : n \in FileNodes } :
          \/ unreadable = bad /\ corrupt = {}
          \/ unreadable = {} /\ corrupt = bad
    /\ rootKind = "dir"
    /\ excludeDirs = <<>>
    /\ vanished = {}
    /\ slow = {}
    /\ algorithm = MD5
    /\ cliPc = CallerOf(finder, progressChan)
    /\ InitRun

SpecErrors == InitErrors /\ [][Next]_vars

\* largest pair list handed to GatherDuplicates and GetDuplicateStats
MaxPairs == 2

\* the paths that occur in those lists
ReportPaths == { PathOf(<<"r">>, n) : n \in FileNodes \ {<< <<"x">>, <<"e">> >>} }

ReportPairs == [Original : ReportPaths, Duplicate : ReportPaths]

\* all pair lists of at most MaxPairs pairs
PairLists == UNION { [1..k -> ReportPairs] : k \in 0..MaxPairs }

\* executeSearch after its search has returned: what the search returned
\* is any pair list, or an error
InitReport ==
    /\ finder = "seq"
    /\ workerArg = 0
    /\ workerCount = ConstructedWorkers(finder, workerArg)
    /\ rootDir = <<"r">>
    /\ excludedDirs = << <<"x">> >>
    /\ excludedRegex = CompileExcluded(excludedDirs)
    /\ progressChan = "chan"
    /\ content = [n \in FileNodes |-> 1]
    /\ unreadable = {}
    /\ rootKind = "dir"
    /\ vanished = {}
    /\ PlainInputs
    /\ fileHashes = EmptyMap
    /\ duplicates = <<>>
    /\ mu = 0
    /\ \/ /\ pc = "done"
          /\ \E l \in PairLists : ret = [done |-> TRUE, err |-> FALSE, dups |-> l]
       \/ /\ pc = "failed"
          /\ ret = Failure
    /\ files = <<>>
    /\ seqIdx = 0
    /\ cliPc = "closed"
    /\ scanNo = 1
    /\ groups = EmptyMap
    /\ stats = NoStats
    /\ fileChan = <<>>
    /\ fileChanClosed = FALSE
    /\ sendIdx = 0
    /\ resultChan = 0
    /\ resultChanClosed = FALSE
    /\ wg = 0
    /\ wpc = [w \in Workers |-> "idle"]
    /\ wfile = [w \in Workers |-> NoPath]
    /\ whash = [w \in Workers |-> NoHash]
    /\ wseen = [w \in Workers |-> NotSeen]
    /\ progBuf = 0
    /\ pulled = [p \in TrackedPaths |-> 0]
    /\ hashCalls = [p \in TrackedPaths |-> 0]
    /\ observed = [p \in TrackedPaths |-> 0]
    /\ progSent = 0
    /\ warnings = 0
    /\ errLog = {}

NextReport == ExecFinish

SpecReport == InitReport /\ [][NextReport]_vars

TypeOK ==
    /\ cliPc \in {"api", "validate", "search", "rejected", "closed",
                  "written", "failed"}
    /\ scanNo \in 1..MaxScans
    /\ rootKind \in {"dir", "file", "missing"}
    /\ pc \in {"start", "file", "progress", "collect", "spawn", "drain",
               "done", "failed"}
    /\ mu \in 0..workerCount
    /\ progBuf \in 0..ProgressCap


\* ------------------------------------------------------------------------
\* Vocabulary of the properties
\* ------------------------------------------------------------------------
\* the candidate paths of the scan in progress
Candidates == { files[i] : i \in 1..Len(files) }

Readable(p) == ~OpenFails(NodeOf(p)) /\ ~ReadFails(NodeOf(p))

DigestOf(p) == HexDigest(content[NodeOf(p)])

\* the scan call has returned without error
Returned == ret.done /\ ~ret.err

\* the readable candidates that share the content of p
ClassOf(p) ==
    { q \in Candidates : Readable(q) /\ DigestOf(q) = DigestOf(p) }

\* the paths occurring in a pair list
PairPaths(dups) ==
    { dups[i].Original : i \in 1..Len(dups) }
        \cup { dups[i].Duplicate : i \in 1..Len(dups) }

RangeOf(f) == { f[x] : x \in DOMAIN f }

RECURSIVE SumOver(_, _)
SumOver(S, f) ==
    IF S = {} THEN 0
    ELSE LET x == CHOOSE y \in S : TRUE
         IN  f[x] + SumOver(S \ {x}, f)

\* all orders in which the paths of S can be observed
Orders(S) ==
    { s \in [1..Cardinality(S) -> S] :
        \A i, j \in 1..Cardinality(S) : s[i] = s[j] => i = j }

\* the pair list a scan yields when it observes the paths of list in order
RECURSIVE ScanList(_, _, _)
ScanList(list, fh, dups) ==
    IF list = <<>> THEN dups
    ELSE LET p == Head(list)
             seen == Lookup(fh, DigestOf(p))
         IN  ScanList(Tail(list),
                      ObserveTable(fh, seen, DigestOf(p), p),
                      ObservePairs(dups, seen, p))

\* ------------------------------------------------------------------------
\* C1
\* ------------------------------------------------------------------------
C1_PairsCarryOriginal ==
    \A i \in 1..Len(duplicates) :
        LET h == DigestOf(duplicates[i].Duplicate)
        IN  /\ h \in DOMAIN fileHashes
            /\ fileHashes[h] = duplicates[i].Original

C1_EntriesKept ==
    pc # "start" =>
        \A h \in DOMAIN fileHashes :
            /\ h \in DOMAIN fileHashes'
            /\ fileHashes'[h] = fileHashes[h]

\* C1: during a scan of either finder, the original recorded for a digest
\* in fileHashes never changes once written (so at most one path is ever
\* the original of a digest), and every pair of duplicates whose Duplicate
\* has that digest carries the recorded path as Original.
C1_OneOriginal == [](C1_PairsCarryOriginal) /\ [][C1_EntriesKept]_vars

C1_Witness ==
    /\ Returned /\ finder = "conc" /\ workerCount > 1
    /\ Len(duplicates) >= 2
    /\ duplicates[1].Original = duplicates[2].Original
    /\ fileHashes[DigestOf(duplicates[1].Duplicate)] = duplicates[1].Original

\* ------------------------------------------------------------------------
\* C2
\* ------------------------------------------------------------------------
\* C2: no update of the locked section is lost: for every digest, the
\* table entry (0 or 1) plus the pairs whose Duplicate has that digest
\* count the completed locked sections for files of that digest; when the
\* scan has returned, entries plus pairs equal the number of candidate
\* files whose hashing succeeded.
C2_NoLostUpdate ==
    /\ \A c \in Contents :
        LET h == HexDigest(c)
            same == { p \in FilePaths : DigestOf(p) = h }
        IN  (IF h \in DOMAIN fileHashes THEN 1 ELSE 0)
              + Cardinality({ i \in 1..Len(duplicates) :
                                DigestOf(duplicates[i].Duplicate) = h })
              = SumOver(same, observed)
    /\ Returned =>
         Cardinality(DOMAIN fileHashes) + Len(duplicates)
           = Cardinality({ p \in Candidates : Readable(p) })

\* two workers were past the lock with the same digest before either sent
\* its result: one became the original, the other its duplicate
C2_Witness ==
    \E w1, w2 \in Workers :
        /\ w1 # w2
        /\ wpc[w1] = "result" /\ wpc[w2] = "result"
        /\ whash[w1] = whash[w2] /\ whash[w1] # NoHash
        /\ fileHashes[whash[w1]] = wfile[w1]
        /\ duplicates = << [Original |-> wfile[w1], Duplicate |-> wfile[w2]] >>

\* ------------------------------------------------------------------------
\* C3
\* ------------------------------------------------------------------------
\* C3: in SearchDuplicatesConcurrent every candidate path is received from
\* fileChan, hashed and (when readable) observed at most once, no two
\* workers hold the same path, nothing but a candidate is received, and at
\* the return every candidate has been received and hashed exactly once
\* and, when readable, observed exactly once.
C3_ExactlyOnce ==
    finder = "conc" =>
        /\ \A p \in FilePaths :
            /\ pulled[p] <= 1 /\ hashCalls[p] <= 1 /\ observed[p] <= 1
            /\ p \notin Candidates => pulled[p] = 0
        /\ \A w1, w2 \in Workers :
            (/\ w1 # w2
             /\ wpc[w1] \in {"hash", "lock", "lookup", "update", "result", "progress"}
             /\ wpc[w2] \in {"hash", "lock", "lookup", "update", "result", "progress"})
                => wfile[w1] # wfile[w2]
        /\ ret.done =>
            \A p \in Candidates :
                /\ pulled[p] = 1 /\ hashCalls[p] = 1
                /\ observed[p] = (IF Readable(p) THEN 1 ELSE 0)

C3_Witness ==
    /\ finder = "conc" /\ ret.done /\ workerCount > 1
    /\ Len(files) = 3
    /\ \A p \in Candidates : pulled[p] = 1 /\ observed[p] = 1

\* ------------------------------------------------------------------------
\* C4
\* ------------------------------------------------------------------------
\* C4: once SearchDuplicatesConcurrent has returned, every worker has
\* exited, the mutex is free, the queue is empty, every candidate has been
\* hashed, and the returned list is the pair list of the index.
C4_ReturnAfterDrain ==
    (finder = "conc" /\ ret.done) =>
        /\ \A w \in Workers : wpc[w] = "exited"
        /\ wg = 0
        /\ mu = 0
        /\ fileChan = <<>> /\ fileChanClosed
        /\ \A p \in Candidates : hashCalls[p] = 1
        /\ ret.dups = duplicates

C4_Witness ==
    /\ finder = "conc" /\ ret.done /\ workerCount > 1
    /\ progressChan = "chan" /\ progSent = 3
    /\ Len(ret.dups) = 2


\* ------------------------------------------------------------------------
\* C5
\* ------------------------------------------------------------------------
\* C5: when a scan has returned, every class of k >= 2 readable candidates
\* with equal digest has exactly one member recorded as original, and
\* exactly k-1 pairs refer to the class: one per remaining member as
\* Duplicate, all with the recorded original as Original.
C5_OneOriginalPerClass ==
    Returned =>
        \A p \in Candidates :
            (Readable(p) /\ Cardinality(ClassOf(p)) >= 2) =>
                LET cls == ClassOf(p)
                    h == DigestOf(p)
                    about == { i \in 1..Len(ret.dups) :
                                 \/ ret.dups[i].Original \in cls
                                 \/ ret.dups[i].Duplicate \in cls }
                IN  /\ h \in DOMAIN fileHashes
                    /\ fileHashes[h] \in cls
                    /\ Cardinality(about) = Cardinality(cls) - 1
                    /\ { ret.dups[i].Duplicate : i \in about }
                         = cls \ {fileHashes[h]}
                    /\ \A i \in about : ret.dups[i].Original = fileHashes[h]

C5_Witness ==
    /\ Returned /\ finder = "conc" /\ workerCount > 1
    /\ \E p \in Candidates : Cardinality(ClassOf(p)) = 3
    /\ Len(ret.dups) = 2
    /\ ret.dups[1].Original # files[1]

\* ------------------------------------------------------------------------
\* C6
\* ------------------------------------------------------------------------
\* the groups of equal content among the readable files collectFiles
\* yields: a function of the tree alone, not of the workers
ExpectedGroups ==
    LET cand == { collectFiles[i] : i \in 1..Len(collectFiles) }
        good == { p \in cand : Readable(p) }
        cls(p) == { q \in good : DigestOf(q) = DigestOf(p) }
    IN  { cls(p) : p \in { q \in good : Cardinality(cls(q)) >= 2 } }

GroupsOf(dups) ==
    { {o} \cup { dups[i].Duplicate : i \in { j \in 1..Len(dups) :
                                              dups[j].Original = o } } :
        o \in { dups[i].Original : i \in 1..Len(dups) } }

\* C6: for every worker count and interleaving, the result of
\* SearchDuplicatesConcurrent has the same groups {original} + duplicates,
\* the groups of equal content of the tree, and the same number of pairs.
C6_SameGroups ==
    (finder = "conc" /\ Returned) =>
        /\ GroupsOf(ret.dups) = ExpectedGroups
        /\ Len(ret.dups)
             = Cardinality(UNION ExpectedGroups) - Cardinality(ExpectedGroups)

C6_Witness ==
    /\ finder = "conc" /\ Returned /\ workerCount = MaxWorkers
    /\ Cardinality(ExpectedGroups) = 1
    /\ Len(ret.dups) = 1
    /\ ret.dups[1].Duplicate = files[1]

\* ------------------------------------------------------------------------
\* C7
\* ------------------------------------------------------------------------
\* C7: a candidate whose content differs from that of every other
\* candidate file never occurs in a pair, as Original or as Duplicate.
C7_UniqueNeverPaired ==
    \A p \in Candidates :
        (\A q \in Candidates \ {p} : DigestOf(q) # DigestOf(p))
            => p \notin PairPaths(duplicates)

C7_Witness ==
    /\ Returned /\ finder = "conc" /\ workerCount > 1
    /\ Len(ret.dups) = 1
    /\ \E p \in Candidates :
        /\ \A q \in Candidates \ {p} : DigestOf(q) # DigestOf(p)
        /\ observed[p] = 1
        /\ p \notin PairPaths(ret.dups)

\* ------------------------------------------------------------------------
\* C8
\* ------------------------------------------------------------------------
\* fragment f occurs in string s
Occurs(f, s) ==
    \E i \in 0..(Len(s) - Len(f)) : SubSeq(s, i + 1, i + Len(f)) = f

\* the path contains one of the excluded fragments handed to the finder
HasExcludedFragment(path) ==
    \E k \in 1..Len(excludedDirs) : Occurs(excludedDirs[k], path)

\* path p was never collected, hashed, recorded or reported
Untouched(p) ==
    /\ p \notin Candidates
    /\ pulled[p] = 0 /\ hashCalls[p] = 0 /\ observed[p] = 0
    /\ p \notin RangeOf(fileHashes)
    /\ p \notin PairPaths(duplicates)
    /\ p \notin PairPaths(ret.dups)

\* C8 as stated: no file under any directory whose path contains an
\* excluded fragment is collected, hashed, recorded or reported, in
\* either finder.
C8_ExcludedDirNeverVisited ==
    \A d \in DirNodes :
        HasExcludedFragment(PathOf(rootDir, d)) =>
            \A f \in FileNodes :
                IsUnder(f, d) => Untouched(PathOf(rootDir, f))

\* C8 amended: the same for every directory below the root in both
\* finders, and for the root itself in SearchDuplicatesConcurrent only
\* (processDirectory never tests the directory it is started on).
C8_ExcludedSubdirNeverVisited ==
    \A d \in DirNodes :
        (HasExcludedFragment(PathOf(rootDir, d)) /\ (d # RootNode \/ finder = "conc")) =>
            \A f \in FileNodes :
                IsUnder(f, d) => Untouched(PathOf(rootDir, f))

C8_Witness ==
    /\ Returned /\ finder = "seq"
    /\ rootDir = <<"r">>
    /\ HasExcludedFragment(PathOf(rootDir, << <<"x">> >>))
    /\ ~HasExcludedFragment(PathOf(rootDir, << <<"d">> >>))
    /\ Len(ret.dups) = 2
    /\ Untouched(PathOf(rootDir, << <<"x">>, <<"e">> >>))

\* ------------------------------------------------------------------------
\* C9
\* ------------------------------------------------------------------------
\* C9: a regular file whose own path contains an excluded fragment, lying
\* in directories whose paths contain none, is not a candidate and is
\* never hashed or reported.
C9_ExcludedFileSkipped ==
    \A f \in FileNodes :
        (/\ HasExcludedFragment(PathOf(rootDir, f))
         /\ \A d \in DirNodes :
              (d = RootNode \/ IsUnder(f, d))
                  => ~HasExcludedFragment(PathOf(rootDir, d)))
            => Untouched(PathOf(rootDir, f))

\* ------------------------------------------------------------------------
\* C10
\* ------------------------------------------------------------------------
\* C10: a scan that has returned did so without error although a file
\* failed to hash, every candidate was hashed once, and the pair list is
\* one the scan yields on the candidate list without the failing files:
\* the list of some observation order of the readable candidates, and
\* with one worker or the sequential finder that of the traversal order.
C10_FailureSkipped ==
    ret.done =>
        /\ ~ret.err
        /\ \A p \in Candidates : hashCalls[p] = 1
        /\ \E o \in Orders({ p \in Candidates : Readable(p) }) :
               ret.dups = ScanList(o, EmptyMap, <<>>)
        /\ (finder = "seq" \/ workerCount = 1) =>
               ret.dups = ScanList(SelectSeq(files, Readable), EmptyMap, <<>>)

C10_Witness ==
    /\ ret.done /\ ~ret.err
    /\ Len(files) = 3
    /\ ~Readable(files[1])
    /\ warnings = 1
    /\ ret.dups = << [Original |-> files[2], Duplicate |-> files[3]] >>

\* ------------------------------------------------------------------------
\* C11
\* ------------------------------------------------------------------------
\* the calling goroutine or a worker stands at the send progressChan <- 1
AtProgressSend ==
    \/ pc = "progress"
    \/ \E w \in Workers : wpc[w] = "progress"

\* C11: a scan called without a progress channel never stands at a send
\* on that channel, where it would block for ever, and what it returns is
\* a pair list of the readable candidates, as with a drained channel.
\* This holds for both finders.
C11_NilSinkTolerated ==
    progressChan = Nil =>
        /\ ~AtProgressSend
        /\ Returned =>
               \E o \in Orders({ p \in Candidates : Readable(p) }) :
                   ret.dups = ScanList(o, EmptyMap, <<>>)

\* ------------------------------------------------------------------------
\* C12
\* ------------------------------------------------------------------------
\* the files whose processing has been started
Processed == SumOver(DOMAIN hashCalls, hashCalls)

\* C12: with a progress channel, a unit is sent only for a file that was
\* processed, and when the scan returns the units sent are as many as the
\* candidate files, whether their hashing succeeded or failed.
C12_OneUnitPerFile ==
    progressChan # Nil =>
        /\ progSent <= Processed
        /\ Returned => progSent = Len(files) /\ progSent = Processed

C12_Witness ==
    /\ progressChan # Nil
    /\ Returned
    /\ progSent = 3
    /\ Len(files) = 3
    /\ warnings = 1
    /\ \E p \in Candidates : ~Readable(p)

\* ------------------------------------------------------------------------
\* C13
\* ------------------------------------------------------------------------
\* no file has been handed to calculateFileHash
NothingHashed == \A p \in DOMAIN hashCalls : hashCalls[p] = 0

\* C13: when the root names a regular file, nothing is hashed, and the
\* scan returns an error and no pair list; this holds for both finders.
C13_FileRootRejected ==
    rootKind = "file" =>
        /\ NothingHashed
        /\ ret.done => ret.err /\ ret.dups = <<>>

\* ------------------------------------------------------------------------
\* C14
\* ------------------------------------------------------------------------
\* utils.WriteJSONFile has been called
OutputWritten == cliPc = "written"

\* C14: the scan of a root that does not exist collects nothing, hashes
\* nothing and returns an error, and the calling layer does not write the
\* output file; the output file is written only after a search that
\* returned without error.
C14_MissingRootNoOutput ==
    /\ rootKind = "missing" =>
           /\ files = <<>>
           /\ NothingHashed
           /\ fileHashes = EmptyMap /\ duplicates = <<>>
           /\ ret.done => ret.err /\ ret.dups = <<>>
           /\ ~OutputWritten
    /\ OutputWritten => Returned

C14_Witness ==
    /\ rootKind = "missing"
    /\ finder = "seq"
    /\ ret.done /\ ret.err
    /\ cliPc = "failed"

\* ------------------------------------------------------------------------
\* C15
\* ------------------------------------------------------------------------
\* C15: when the root is a directory that cannot be read, the scan ends
\* with an error, not with an empty pair list; this holds for both
\* finders.
C15_UnreadableRootFails ==
    (rootKind = "dir" /\ RootNode \in unreadable /\ ret.done) => ret.err

\* ------------------------------------------------------------------------
\* C16
\* ------------------------------------------------------------------------
\* the entries below the root that cannot be read or are gone
FailingEntries == (unreadable \cup vanished) \ {RootNode}

\* file f is neither a failing entry nor below one
OutsideFailing(f) ==
    \A e \in FailingEntries : f # e /\ ~IsUnder(f, e)

\* file f lies below a directory whose path holds an excluded fragment
BelowExcluded(f) ==
    \E d \in DirNodes \ {RootNode} :
        IsUnder(f, d) /\ HasExcludedFragment(PathOf(rootDir, d))

\* C16: when the root can be read, the scan returns without error
\* whatever entry below the root fails, and every file that is neither
\* the failing entry, nor below it, nor below an excluded directory, is a
\* candidate that was hashed and observed once.
C16_EntryErrorAbsorbed ==
    (rootKind = "dir" /\ RootNode \notin unreadable /\ ret.done) =>
        /\ ~ret.err
        /\ \A f \in FileNodes :
               (OutsideFailing(f) /\ ~BelowExcluded(f)) =>
                   /\ PathOf(rootDir, f) \in Candidates
                   /\ hashCalls[PathOf(rootDir, f)] = 1
                   /\ observed[PathOf(rootDir, f)] = 1

C16_Witness ==
    /\ Returned
    /\ FailingEntries = { << <<"d">> >> }
    /\ files = << PathOf(rootDir, << <<"a">> >>),
                  PathOf(rootDir, << <<"a", "x">> >>),
                  PathOf(rootDir, << <<"x">>, <<"e">> >>) >>
    /\ Len(ret.dups) = 2

\* ------------------------------------------------------------------------
\* C17
\* ------------------------------------------------------------------------
\* C17: whatever scans the finder completed before, once a scan is past
\* its start the index holds only what this scan observed, and the pair
\* list it returns is one a fresh finder yields on the same tree: the list
\* of some observation order of the readable candidates, and with one
\* worker or the sequential finder that of the traversal order.
C17_NoCarryOver ==
    /\ pc \notin {"start", "failed"} =>
           /\ \A h \in DOMAIN fileHashes :
                  /\ observed[fileHashes[h]] = 1
                  /\ DigestOf(fileHashes[h]) = h
           /\ \A i \in 1..Len(duplicates) :
                  /\ observed[duplicates[i].Duplicate] = 1
                  /\ observed[duplicates[i].Original] = 1
    /\ Returned =>
           /\ \E o \in Orders({ p \in Candidates : Readable(p) }) :
                  ret.dups = ScanList(o, EmptyMap, <<>>)
           /\ (finder = "seq" \/ workerCount = 1) =>
                  ret.dups = ScanList(SelectSeq(files, Readable),
                                      EmptyMap, <<>>)

C17_Witness ==
    /\ scanNo = 2
    /\ finder = "conc"
    /\ Returned
    /\ Len(files) = 3
    /\ ret.dups = << [Original |-> files[2], Duplicate |-> files[3]] >>

\* ------------------------------------------------------------------------
\* C18
\* ------------------------------------------------------------------------
\* a step that writes df.fileHashes or df.duplicates
IndexWritten == fileHashes' # fileHashes \/ duplicates' # duplicates

\* C18: every step of the worker-pool finder that writes the index, the
\* reset at the start of a scan included, is taken while the mutex is
\* held.
C18_WritesUnderMutex ==
    [][(finder = "conc" /\ IndexWritten) => mu # 0]_vars

\* ------------------------------------------------------------------------
\* C19
\* ------------------------------------------------------------------------
\* the first readable candidate, in traversal order, with the digest of p
FirstOfDigest(p) ==
    LET i == CHOOSE k \in 1..Len(files) :
                 /\ Readable(files[k]) /\ DigestOf(files[k]) = DigestOf(p)
                 /\ \A j \in 1..(k - 1) :
                        ~(Readable(files[j])
                            /\ DigestOf(files[j]) = DigestOf(p))
    IN  files[i]

\* p is readable and not the first candidate of its digest
IsLaterCopy(p) == Readable(p) /\ FirstOfDigest(p) # p

\* the later copies in traversal order
LaterCopies == SelectSeq(files, IsLaterCopy)

\* C19: with one worker the pair list is a function of the tree: the
\* later copies in traversal order, each paired with the first candidate
\* of its digest in traversal order.
C19_OneWorkerDeterministic ==
    (finder = "conc" /\ workerCount = 1 /\ Returned) =>
        /\ Len(ret.dups) = Len(LaterCopies)
        /\ \A i \in 1..Len(LaterCopies) :
               /\ ret.dups[i].Duplicate = LaterCopies[i]
               /\ ret.dups[i].Original = FirstOfDigest(LaterCopies[i])

C19_Witness ==
    /\ finder = "conc" /\ workerCount = 1
    /\ Returned
    /\ Len(files) = 3
    /\ ret.dups = << [Original |-> files[1], Duplicate |-> files[2]],
                     [Original |-> files[1], Duplicate |-> files[3]] >>

\* ------------------------------------------------------------------------
\* C20
\* ------------------------------------------------------------------------
\* Idle, Collecting, Hashing (workers started, results drained), Done
PhaseRank(p) ==
    CASE p = "start" -> 0
      [] p = "collect" -> 1
      [] p = "spawn" -> 2
      [] p = "drain" -> 3
      [] OTHER -> 4

\* a worker has been started or a file has been taken or hashed
HashingStarted ==
    \/ \E w \in Workers : wpc[w] # "idle"
    \/ \E p \in DOMAIN hashCalls : hashCalls[p] > 0 \/ pulled[p] > 0

C20_Phases ==
    finder = "conc" =>
        /\ HashingStarted => PhaseRank(pc) >= 3
        /\ PhaseRank(pc) <= 1 => files = <<>>
        /\ Returned =>
               /\ \A w \in Workers : wpc[w] = "exited"
               /\ \A p \in Candidates : hashCalls[p] = 1
               /\ ret.dups = duplicates

C20_Step ==
    finder = "conc" =>
        /\ PhaseRank(pc') >= PhaseRank(pc)
        /\ PhaseRank(pc) >= 2 => files' = files
        /\ ret.done => ret' = ret /\ duplicates' = duplicates

\* C20: the worker-pool scan goes through its phases in order and never
\* back: no file is hashed before the candidate list is complete, the
\* candidate list does not change once it is complete, and the pair list
\* is returned only after every worker has finished, and is final.
C20_StrictPipeline == [](C20_Phases) /\ [][C20_Step]_vars

C20_Witness ==
    /\ finder = "conc" /\ workerCount = MaxWorkers
    /\ Returned
    /\ Len(files) = 3
    /\ \A p \in Candidates : hashCalls[p] = 1

\* ------------------------------------------------------------------------
\* C21
\* ------------------------------------------------------------------------
\* worker w is inside calculateFileHash on a file whose read never ends
Blocked(w) == wpc[w] = "hash" /\ NodeOf(wfile[w]) \in slow

\* every candidate other than the slow file has been taken, hashed and
\* observed by some worker
OthersFinished ==
    \A p \in Candidates :
        NodeOf(p) \notin slow =>
            pulled[p] = 1 /\ hashCalls[p] = 1 /\ observed[p] = 1

\* C21: with two workers or more, once a worker is blocked on a slow file
\* the other workers take and finish every other candidate: no path waits
\* for the blocked worker.
C21_SharedQueue ==
    (finder = "conc" /\ workerCount >= 2 /\ \E w \in Workers : Blocked(w))
        ~> OthersFinished

C21_Witness ==
    /\ finder = "conc" /\ workerCount >= 2
    /\ \E w \in Workers : Blocked(w) /\ wfile[w] = files[1]
    /\ Len(files) = 3
    /\ OthersFinished

\* ------------------------------------------------------------------------
\* C22
\* ------------------------------------------------------------------------
\* no two pairs of the list have the same Duplicate path
DuplicateOnce(dups) ==
    \A i, j \in 1..Len(dups) :
        dups[i].Duplicate = dups[j].Duplicate => i = j

\* C22: at every moment of a scan, and in the list it returns, a path is
\* the Duplicate of at most one pair, whatever the worker count and the
\* interleaving.
C22_NoPairTwice ==
    /\ DuplicateOnce(duplicates)
    /\ ret.done => DuplicateOnce(ret.dups)

C22_Witness ==
    /\ finder = "conc" /\ workerCount = MaxWorkers
    /\ Returned
    /\ Len(ret.dups) = 2
    /\ ret.dups[1].Duplicate # ret.dups[2].Duplicate
    /\ ret.dups[1].Original = ret.dups[2].Original

\* ------------------------------------------------------------------------
\* C23
\* ------------------------------------------------------------------------
\* the distinct Original values of a pair list
OriginalsOf(dups) == { dups[i].Original : i \in 1..Len(dups) }

\* C23: the statistics of the pair list the search returned count the
\* pairs, the distinct originals, and as total their sum; all three are 0
\* for the empty list.
C23_StatsIdentity ==
    cliPc = "written" =>
        /\ stats.TotalDuplicateFiles
              = stats.TotalDuplicates + stats.UniqueOriginals
        /\ stats.TotalDuplicates = Len(ret.dups)
        /\ stats.UniqueOriginals = Cardinality(OriginalsOf(ret.dups))
        /\ ret.dups = <<>> => stats.TotalDuplicateFiles = 0

C23_Witness ==
    /\ cliPc = "written"
    /\ Len(ret.dups) = 2
    /\ ret.dups[1].Original = ret.dups[2].Original
    /\ stats.TotalDuplicates = 2
    /\ stats.UniqueOriginals = 1
    /\ stats.TotalDuplicateFiles = 3

\* ------------------------------------------------------------------------
\* C24
\* ------------------------------------------------------------------------
\* the Duplicate paths of the pairs of original o, in the order of the list
RECURSIVE DuplicatesOf(_, _)
DuplicatesOf(dups, o) ==
    IF dups = <<>> THEN <<>>
    ELSE (IF Head(dups).Original = o THEN << Head(dups).Duplicate >>
          ELSE <<>>) \o DuplicatesOf(Tail(dups), o)

C24_Grouped ==
    cliPc = "written" =>
        /\ DOMAIN groups = OriginalsOf(ret.dups)
        /\ \A o \in DOMAIN groups : groups[o] = DuplicatesOf(ret.dups, o)
        /\ SumOver(DOMAIN groups, [o \in DOMAIN groups |-> Len(groups[o])])
              = Len(ret.dups)

C24_InputKept == ret.done => ret' = ret

\* C24: the groups have one key per distinct Original, the value of a key
\* is the sequence of the Duplicate paths of its pairs in list order, the
\* lengths of the values sum to the number of pairs, and the list given is
\* not changed.
C24_PureGrouping == [](C24_Grouped) /\ [][C24_InputKept]_vars

C24_Witness ==
    /\ cliPc = "written"
    /\ Len(ret.dups) = 2
    /\ ret.dups[1].Original = ret.dups[2].Original
    /\ ret.dups[1].Duplicate # ret.dups[2].Duplicate
    /\ groups[ret.dups[1].Original]
          = << ret.dups[1].Duplicate, ret.dups[2].Duplicate >>

\* ------------------------------------------------------------------------
\* C25
\* ------------------------------------------------------------------------
\* the worker goroutines that have been started
StartedWorkers == { w \in DOMAIN wpc : wpc[w] # "idle" }

WorkersSpawned == pc \in {"drain", "done"}

\* C25: a concurrent finder made with a count that is not positive has
\* DefaultWorkers workers, one made with a positive count has that count;
\* so it has at least one worker, and once the workers are started exactly
\* workerCount of them have been.
C25_WorkerCountCoerced ==
    finder = "conc" =>
        /\ workerArg <= 0 => workerCount = 4
        /\ workerArg > 0 => workerCount = workerArg
        /\ workerCount >= 1
        /\ WorkersSpawned => Cardinality(StartedWorkers) = workerCount

C25_Witness ==
    /\ finder = "conc" /\ workerArg = 0
    /\ Returned
    /\ Cardinality(StartedWorkers) = 4

\* ------------------------------------------------------------------------
\* C26
\* ------------------------------------------------------------------------
\* strings.ToLower on the letters that occur in selectors
LowerChar(c) ==
    CASE c = "S" -> "s" [] c = "H" -> "h" [] c = "A" -> "a"
      [] c = "M" -> "m" [] c = "D" -> "d" [] OTHER -> c

ToLower(sel) == [i \in 1..Len(sel) |-> LowerChar(sel[i])]

\* the hasher of each supported selector
HasherOf(sel) ==
    CASE sel = MD5    -> "md5.New"
      [] sel = SHA1   -> "sha1.New"
      [] sel = SHA256 -> "sha256.New"
      [] sel = SHA512 -> "sha512.New"

\* the hashers of the digests in the table
HashersUsed == { h[1] : h \in DOMAIN fileHashes }

\* C26: a selector that is a supported name up to letter case is not
\* rejected by the command line validation of a directory, and the table
\* holds digests of the algorithm of that name only.
C26_CaseInsensitive ==
    IsValidAlgorithm(ToLower(algorithm)) =>
        /\ rootKind = "dir" => cliPc # "rejected"
        /\ HashersUsed \subseteq { HasherOf(ToLower(algorithm)) }

\* ------------------------------------------------------------------------
\* C27
\* ------------------------------------------------------------------------
\* the first readable candidate, in traversal order, with the content of p
FirstOfContent(p) ==
    LET i == CHOOSE k \in 1..Len(files) :
                 /\ Readable(files[k])
                 /\ content[NodeOf(files[k])] = content[NodeOf(p)]
                 /\ \A j \in 1..(k - 1) :
                        ~(Readable(files[j])
                            /\ content[NodeOf(files[j])] = content[NodeOf(p)])
    IN  files[i]

IsCopy(p) == Readable(p) /\ FirstOfContent(p) # p

\* what a one-worker or sequential scan with md5 returns: equal digests
\* are equal contents
Md5Result ==
    LET copies == SelectSeq(files, IsCopy)
    IN  [i \in 1..Len(copies) |->
            [Original |-> FirstOfContent(copies[i]), Duplicate |-> copies[i]]]

\* C27: a finder made with a selector outside md5, sha1, sha256, sha512
\* puts MD5 digests only into its table, and its scan returns without an
\* error the pair list a finder made with md5 returns.
C27_UnknownIsMd5 ==
    ~IsValidAlgorithm(algorithm) =>
        /\ HashersUsed \subseteq {"md5.New"}
        /\ ret.done => (~ret.err /\ ret.dups = Md5Result)

C27_Witness ==
    /\ algorithm = <<"c", "r", "c">>
    /\ finder = "conc"
    /\ Returned
    /\ Len(ret.dups) = 2
    /\ HashersUsed = {"md5.New"}

\* ------------------------------------------------------------------------
\* C28
\* ------------------------------------------------------------------------
\* the text of the message has the path in it
Mentions(msg, path) == \E i \in 1..Len(msg) : msg[i] = path

HashFails(p) == ~Readable(p)

RunByCommandLine == cliPc # "api"

\* some file has been given to calculateFileHash
SomeFileHashed == \E p \in FilePaths : hashCalls[p] > 0

\* C29: a scan run by the command line hashes its files in the worker
\* pool: when a file has been hashed the file list has been collected and
\* the worker goroutines of a concurrent finder have been started.
C29_CliUsesPool ==
    (RunByCommandLine /\ SomeFileHashed) =>
        /\ finder = "conc"
        /\ WorkersSpawned
        /\ Cardinality(StartedWorkers) = workerCount

\* ------------------------------------------------------------------------
\* C30
\* ------------------------------------------------------------------------
\* the path strings of this scan: the root and everything below it
ScanPaths == { PathOf(rootDir, n) : n \in Nodes }

\* C30: isExcluded is true of a path exactly when a fragment of the
\* excluded list occurs in it as a substring, each character of a fragment
\* standing for itself; with an empty list it is false of every path.
C30_LiteralSubstring ==
    /\ \A path \in ScanPaths : isExcluded(path) <=> HasExcludedFragment(path)
    /\ excludedDirs = <<>> => \A path \in ScanPaths : ~isExcluded(path)

C30_Witness ==
    /\ excludedDirs = << <<".", "x">> >>
    /\ rootDir = <<"r">>
    /\ ~isExcluded(PathOf(rootDir, << <<"x">> >>))
    /\ Returned
    /\ hashCalls[PathOf(rootDir, << <<"x">>, <<"e">> >>)] = 1

\* ------------------------------------------------------------------------
\* C31
\* ------------------------------------------------------------------------
\* the step ends the locked section of processFile on path p
ObserveStepOf(p) == observed'[p] # observed[p]

\* the table with one more digest, recorded for path p
TableWith(fh, h, p) ==
    [k \in DOMAIN fh \cup {h} |-> IF k = h THEN p ELSE fh[k]]

C31_Step ==
    \A p \in FilePaths :
        ObserveStepOf(p) =>
            LET h == DigestOf(p)
            IN  IF h \in DOMAIN fileHashes
                THEN /\ duplicates'
                          = Append(duplicates, [Original |-> fileHashes[h],
                                                Duplicate |-> p])
                     /\ fileHashes' = fileHashes
                ELSE /\ fileHashes' = TableWith(fileHashes, h, p)
                     /\ DOMAIN fileHashes' # DOMAIN fileHashes
                     /\ duplicates' = duplicates

\* C31: the step that observes a file changes one part of the index only:
\* for a digest not in the table it adds the entry digest -> path and
\* leaves the pair list as it is; for a digest in the table it appends the
\* one pair (recorded original, path) and leaves the table as it is.
C31_ObserveFrame == [][C31_Step]_vars

C31_Witness ==
    /\ finder = "conc" /\ workerCount = MaxWorkers
    /\ Cardinality(DOMAIN fileHashes) = 2
    /\ Len(duplicates) = 1
    /\ SumOver(FilePaths, observed) = 3

\* ------------------------------------------------------------------------
\* C32
\* ------------------------------------------------------------------------
\* the step is a call of calculateFileHash on p
HashStepOf(p) == hashCalls'[p] # hashCalls[p]

\* a worker is in the locked section of processFile, or waits for it, on p
InLockedSection(p) ==
    \E w \in Workers :
        wfile[w] = p /\ wpc[w] \in {"lock", "lookup", "update"}

\* the call of processFile on a file that fails to hash changes neither
\* the table nor the pair list nor the mutex
C32_CallFrame ==
    \A p \in FilePaths :
        (HashStepOf(p) /\ HashFails(p)) =>
            /\ fileHashes' = fileHashes
            /\ duplicates' = duplicates
            /\ mu' = mu
            /\ observed'[p] = observed[p]

\* a file that fails to hash never reaches the locked section, is no
\* original in the table and occurs in no pair
C32_NeverRecorded ==
    \A p \in FilePaths :
        HashFails(p) =>
            /\ ~InLockedSection(p)
            /\ observed[p] = 0
            /\ p \notin RangeOf(fileHashes)
            /\ p \notin PairPaths(duplicates)
            /\ p \notin PairPaths(ret.dups)

\* C32: a file whose hashing fails leaves the index untouched: the call
\* returns without taking the mutex and without a change of the table or
\* of the pair list, and the path is never an original nor part of a pair
\* of the result.
C32_FailureLeavesIndex == [](C32_NeverRecorded) /\ [][C32_CallFrame]_vars

C32_Witness ==
    /\ finder = "conc" /\ workerCount = MaxWorkers
    /\ Returned
    /\ Len(files) = 3
    /\ NodeOf(files[1]) \in corrupt
    /\ hashCalls[files[1]] = 1
    /\ ret.dups = << [Original |-> files[2], Duplicate |-> files[3]] >>

\* ------------------------------------------------------------------------
\* C33
\* ------------------------------------------------------------------------
\* the sender at a send finds room in fileChan, and a worker at its send on
\* resultChan finds room in it and finds it open
SendsNeverBlock ==
    /\ (pc = "drain" /\ ~fileChanClosed /\ sendIdx < Len(files))
          => Len(fileChan) < Len(files)
    /\ \A w \in Workers :
           wpc[w] = "result" => (resultChan < Len(files) /\ ~resultChanClosed)

\* C33: when every goroutine that can run does run, and the progress
\* channel is nil or drained by its consumer, a call of
\* SearchDuplicatesConcurrent returns, with any worker count and with an
\* empty candidate list too; no send on fileChan or resultChan blocks.
C33_Terminates ==
    /\ [](finder = "conc" => SendsNeverBlock)
    /\ (finder = "conc" /\ pc = "start") ~> (pc = "done" /\ ret.done)

C33_Witness ==
    /\ finder = "conc" /\ workerCount = MaxWorkers
    /\ pc = "done" /\ Returned
    /\ files = <<>>
    /\ \A w \in Workers : wpc[w] = "exited"

\* ------------------------------------------------------------------------
\* C34
\* ------------------------------------------------------------------------
\* executeSearch has closed the progress channel
ProgressClosed == cliPc \in {"closed", "failed", "written"}

\* a goroutine of the scan is at a send on the progress channel
SendPending ==
    \/ pc = "progress"
    \/ \E w \in Workers : wpc[w] = "progress"

\* no unit is sent once the call has returned or the channel is closed
C34_Step == (ret.done \/ ProgressClosed) => progSent' = progSent

\* C34: when the scan call has returned no goroutine of it is at a send
\* on the progress channel or sends on it later, in either finder; so no
\* send meets the channel closed by the caller after the call.
C34_NoSendAfterReturn ==
    /\ []((ret.done \/ ProgressClosed) => ~SendPending)
    /\ [][C34_Step]_vars

C34_Witness ==
    /\ finder = "conc" /\ workerCount = MaxWorkers
    /\ progressChan = "chan"
    /\ Returned
    /\ progSent = 3

\* ------------------------------------------------------------------------
\* C35
\* ------------------------------------------------------------------------
OriginalsIn(dups) == { dups[i].Original : i \in 1..Len(dups) }

DuplicatesIn(dups) == { dups[i].Duplicate : i \in 1..Len(dups) }

\* C35: in the pair list a scan returns no path is Original of one pair
\* and Duplicate of a pair (the same or another), and every Original is a
\* candidate of the scan that was hashed without error.
C35_RolesDisjoint ==
    ret.done =>
        /\ OriginalsIn(ret.dups) \cap DuplicatesIn(ret.dups) = {}
        /\ \A i \in 1..Len(ret.dups) :
               ret.dups[i].Original # ret.dups[i].Duplicate
        /\ \A o \in OriginalsIn(ret.dups) :
               o \in Candidates /\ Readable(o) /\ hashCalls[o] = 1

C35_Witness ==
    /\ finder = "conc" /\ workerCount = MaxWorkers
    /\ Returned
    /\ Len(ret.dups) = 2
    /\ Cardinality(OriginalsIn(ret.dups)) = 1
    /\ Cardinality(DuplicatesIn(ret.dups)) = 2
    /\ OriginalsIn(ret.dups) = {files[2]}

\* ------------------------------------------------------------------------
\* C36
\* ------------------------------------------------------------------------
\* the files in the order SearchDuplicates meets them, and in the order
\* SearchDuplicatesConcurrent collects them
SeqOrder == processDirectory(RootNode)

ConcOrder == collectFiles

\* the pair list of a scan that observes the readable files of a list in
\* the order of the list
PairsOf(order) == ScanList(SelectSeq(order, Readable), EmptyMap, <<>>)

\* the pair list and the number of progress units are those of a scan in
\* the given order
SameAsScanOf(order) ==
    /\ ret.dups = PairsOf(order)
    /\ progressChan # Nil => progSent = Len(order)

\* C36: on a root directory whose path has no excluded fragment in it, the
\* worker pool with one worker returns the pair list, in order, and sends
\* the number of progress units of the sequential scan of the same tree,
\* and the sequential scan those of the one-worker pool.
C36_OneWorkerRefinesSeq ==
    (Returned /\ rootKind = "dir" /\ ~HasExcludedFragment(rootDir)) =>
        /\ (finder = "conc" /\ workerCount = 1) => SameAsScanOf(SeqOrder)
        /\ finder = "seq" => SameAsScanOf(ConcOrder)

\* ------------------------------------------------------------------------
\* C37
\* ------------------------------------------------------------------------
\* the paths of the files that lie in the root directory itself, and of
\* those that lie in a directory below it
RootFiles == { PathOf(rootDir, n) : n \in { m \in FileNodes : Len(m) = 1 } }

DeeperFiles == FilePaths \ RootFiles

\* C37: on a root whose path has an excluded fragment in it,
\* SearchDuplicatesConcurrent has no candidate, hashes nothing and returns
\* the empty pair list without error; SearchDuplicates hashes each file
\* that lies in the root itself and no file of a subdirectory.
C37_RootTestDiffers ==
    (HasExcludedFragment(rootDir) /\ ret.done) =>
        /\ ~ret.err
        /\ finder = "conc" =>
              /\ files = <<>>
              /\ ret.dups = <<>>
              /\ \A p \in FilePaths : hashCalls[p] = 0
        /\ finder = "seq" =>
              /\ \A p \in RootFiles : hashCalls[p] = 1
              /\ \A p \in DeeperFiles : Untouched(p)

C37_Witness ==
    /\ rootDir = <<"x">> /\ excludedDirs = << <<"x">> >>
    /\ finder = "seq"
    /\ Returned
    /\ Len(ret.dups) = 1
    /\ ret.dups[1].Duplicate \in RootFiles

\* ------------------------------------------------------------------------
\* C38
\* ------------------------------------------------------------------------
\* the flag has an element, between its commas and ends, that is empty or
\* made of blanks
HasBlankElement(flag) ==
    /\ flag # <<>>
    /\ \E i \in 0..Len(flag) : \E j \in (i + 1)..(Len(flag) + 1) :
           /\ i = 0 \/ flag[i] = ","
           /\ j = Len(flag) + 1 \/ flag[j] = ","
           /\ \A k \in (i + 1)..(j - 1) : flag[k] = " "

====
